---- MODULE Spec2Model ----
(***************************************************************************)
(* The wire codec that java.babelg.py generates for a schema: per struct   *)
(* class a JsonWriter (write, writeFields) and a JsonReader (read,         *)
(* readFromTags, readFields, validate); per union class the tag, the       *)
(* shared value slots, the factories, a writer, a reader and a validator.  *)
(* The generator is a function of the schema, so the generated codec is    *)
(* modelled as operators parameterised by the type name, evaluated over    *)
(* one fixed schema that has every shape the generator distinguishes.      *)
(*                                                                         *)
(* Text is a sequence of chunks: a chunk is either the dot "." or a        *)
(* non-empty run of characters without a dot ("b.c" is <<"b",".","c">>).   *)
(***************************************************************************)
EXTENDS Integers, Sequences, FiniteSets, TLC

\* ---------------------------------------------------------------- bounds
MaxInt == 1      \* numeric field values range over 0..MaxInt
MaxItems == 1    \* in-memory lists have at most MaxItems items
MaxTamper == 1   \* number of changes a peer may make to an object in flight

None == -1       \* "is None" of an optional constraint

\* ---------------------------------------------------------------- schema
\* A TypeRef: kind, the Nullable wrapper as a flag, the composite's name,
\* the numeric/length/item bounds and the list's element type.
Ref(kind, nullable, name, min, max, elem) ==
  [kind |-> kind, nullable |-> nullable, name |-> name,
   min |-> min, max |-> max, elem |-> elem]

Int32T == Ref("Int32", FALSE, "", None, None, <<>>)
Int64T == Ref("Int64", FALSE, "", None, None, <<>>)
UInt32T == Ref("UInt32", FALSE, "", None, None, <<>>)
StringT == Ref("String", FALSE, "", None, None, <<>>)
VoidT == Ref("Void", FALSE, "", None, None, <<>>)
StructT(n) == Ref("Struct", FALSE, n, None, None, <<>>)
ListT(e) == Ref("List", FALSE, "", None, None, <<e>>)
Nullable(r) == [r EXCEPT !.nullable = TRUE]
\* a type with declared min_value/max_value, min_length/max_length or
\* min_items/max_items (None: not declared)
Bounded(r, min, max) == [r EXCEPT !.min = min, !.max = max]

Field(name, data_type, has_default, default) ==
  [name |-> name, data_type |-> data_type,
   has_default |-> has_default, default |-> default]
Req(name, data_type) == Field(name, data_type, FALSE, 0)

StructNames ==
  {"A", "B", "C", "P", "Q", "M", "H", "R", "S",
   "VN", "VB", "VS", "VL", "VLL", "VLS", "VO", "VD"}
UnionNames == {"E", "U"}

\* struct A            (root of an enumerated-subtype tree)
\*   union  b B
\* struct B extends A
\*   union  c C
\* struct C extends B
\* struct P            (plain record)     struct Q extends P (no subtypes)
\* struct M            (message record)   struct H  (holds a field of type A)
\* union E  (closed)   union U extends E  (catch-all "other")
\* struct R            (root of a tree of one level)   struct S extends R
\* struct VN, VB, VS, VL, VLL, VLS, VO, VD: records whose fields declare
\*   constraints (value range, length, item count), nullability, defaults
parent_type ==
  [A |-> "", B |-> "A", C |-> "B", P |-> "", Q |-> "P", M |-> "", H |-> "",
   E |-> "", U |-> "E", VN |-> "", VB |-> "", VS |-> "", VL |-> "",
   VLL |-> "", VLS |-> "", VO |-> "", VD |-> "", R |-> "", S |-> "R"]

enumerated_subtypes ==
  [A |-> << <<"b", "B">> >>, B |-> << <<"c", "C">> >>, C |-> <<>>,
   P |-> <<>>, Q |-> <<>>, M |-> <<>>, H |-> <<>>,
   VN |-> <<>>, VB |-> <<>>, VS |-> <<>>, VL |-> <<>>, VLL |-> <<>>,
   VLS |-> <<>>, VO |-> <<>>, VD |-> <<>>,
   R |-> << <<"s", "S">> >>, S |-> <<>>]

fields ==
  [A |-> << Req("a", Int32T) >>,
   B |-> << Req("bf", Int32T) >>,
   C |-> << Field("cf", Int32T, TRUE, 1) >>,
   P |-> << Req("x", Int32T), Req("y", Nullable(Int32T)) >>,
   Q |-> << Req("q", Int32T) >>,
   M |-> << Req("message", StringT), Field("retries", Int32T, TRUE, 3) >>,
   H |-> << Req("h", StructT("A")) >>,
   E |-> << Req("ok", VoidT), Req("num", Int64T) >>,
   U |-> << Req("other", VoidT),
            Req("info", StructT("P")),
            Req("network_error", StructT("M")),
            Req("server_error", StructT("M")),
            Req("cnt", UInt32T),
            Req("opt", Nullable(Int64T)),
            Req("lst", ListT(Int32T)),
            Req("sub", StructT("A")),
            Req("leaf", StructT("C")),
            Req("ext", StructT("Q")) >>,
   VN |-> << Req("n", Bounded(Int32T, 0, 1)) >>,
   VB |-> << Req("lo", Bounded(Int32T, 0, None)),
             Req("hi", Bounded(Int32T, None, 0)) >>,
   R |-> << Req("r", Int32T) >>,
   S |-> << Req("sf", Nullable(Int32T)) >>,
   VS |-> << Req("s", Bounded(StringT, 1, 2)) >>,
   VL |-> << Req("l", Bounded(ListT(Bounded(Int32T, 0, None)), 1, 1)) >>,
   VLL |-> << Req("ll", ListT(ListT(Bounded(Int32T, 0, None)))) >>,
   VLS |-> << Req("ls", ListT(StructT("VN"))) >>,
   VO |-> << Req("o", Nullable(Bounded(Int32T, 0, 1))),
             Req("on", Nullable(StructT("VD"))) >>,
   VD |-> << Field("d", Bounded(Int32T, 0, 1), TRUE, 1),
             Field("u", Int32T, TRUE, 0) >>]

catch_all_field == [E |-> "", U |-> "other"]

\* ------------------------------------------------- schema model accessors
is_struct_type(dt) == dt.kind = "Struct"
is_union_type(dt) == dt.kind = "Union"
is_composite_type(dt) == dt.kind \in {"Struct", "Union"}
is_list_type(dt) == dt.kind = "List"
is_string_type(dt) == dt.kind = "String"
is_numeric_type(dt) == dt.kind \in {"Int32", "Int64", "UInt32"}
is_void_type(dt) == dt.kind = "Void"
is_nullable_type(dt) == dt.nullable
is_simple_field(field) == is_void_type(field.data_type)

has_enumerated_subtypes(t) == Len(enumerated_subtypes[t]) > 0

is_member_of_enumerated_subtypes_tree(t) ==
  \/ (parent_type[t] # "" /\ has_enumerated_subtypes(parent_type[t]))
  \/ has_enumerated_subtypes(t)

RECURSIVE all_fields(_)
all_fields(t) ==
  IF parent_type[t] = "" THEN fields[t]
  ELSE all_fields(parent_type[t]) \o fields[t]

FieldNames(fs) == {fs[i].name : i \in 1..Len(fs)}
IndexOf(fs, name) == CHOOSE i \in 1..Len(fs) : fs[i].name = name
FieldNamed(t, name) == all_fields(t)[IndexOf(all_fields(t), name)]

\* The tag under which parent p enumerates child t.
TagOf(p, t) ==
  LET es == enumerated_subtypes[p]
  IN es[CHOOSE i \in 1..Len(es) : es[i][2] = t][1]

\* (mutation of get_ancestors: the list is not reversed)
RECURSIVE get_ancestors_unreversed(_)
get_ancestors_unreversed(t) ==
  LET p == parent_type[t]
      tag == IF p # "" /\ has_enumerated_subtypes(p) THEN TagOf(p, t) ELSE ""
  IN << <<tag, t>> >> \o (IF p = "" THEN <<>> ELSE get_ancestors_unreversed(p))

RECURSIVE get_ancestors(_)
get_ancestors(t) ==
  LET p == parent_type[t]
      tag == IF p # "" /\ has_enumerated_subtypes(p) THEN TagOf(p, t) ELSE ""
  IN (IF p = "" THEN <<>> ELSE get_ancestors(p)) \o << <<tag, t>> >>

\* Is class c the class t or one of its descendants (Java instanceof).
RECURSIVE IsKindOf(_, _)
IsKindOf(c, t) ==
  \/ c = t
  \/ (parent_type[c] # "" /\ IsKindOf(parent_type[c], t))

type_map ==
  [UInt64 |-> "Long", Int64 |-> "Long", UInt32 |-> "Long", Int32 |-> "Integer",
   String |-> "String", Void |-> "void"]

RECURSIVE maptype(_)
\* (mutation of maptype: the Nullable wrapper is not unwrapped)
maptype_keep_nullable(data_type) ==
  (IF is_list_type(data_type)
   THEN "java.util.ArrayList<" \o maptype(data_type.elem[1]) \o ">"
   ELSE IF data_type.kind \in DOMAIN type_map THEN type_map[data_type.kind]
   ELSE data_type.name)
  \o (IF data_type.nullable THEN "?" ELSE "")

maptype(data_type) ==
  IF is_list_type(data_type)
  THEN "java.util.ArrayList<" \o maptype(data_type.elem[1]) \o ">"
  ELSE IF data_type.kind \in DOMAIN type_map THEN type_map[data_type.kind]
  ELSE data_type.name

\* ------------------------------------------------------------------ text
Dot == "."
\* String.split("\\.") : the pieces between dots, trailing empty pieces
\* removed; a text without a dot is returned whole (even when empty).
RECURSIVE Pieces(_, _)
Pieces(txt, cur) ==
  IF txt = <<>> THEN <<cur>>
  ELSE IF Head(txt) = Dot THEN <<cur>> \o Pieces(Tail(txt), <<>>)
  ELSE Pieces(Tail(txt), Append(cur, Head(txt)))

RECURSIVE DropTrailingEmpty(_)
DropTrailingEmpty(ps) ==
  IF ps # <<>> /\ ps[Len(ps)] = <<>>
  THEN DropTrailingEmpty(SubSeq(ps, 1, Len(ps) - 1))
  ELSE ps

split(txt) ==
  IF \A i \in 1..Len(txt) : txt[i] # Dot THEN <<txt>>
  ELSE DropTrailingEmpty(Pieces(txt, <<>>))

\* '.'.join(tags) for a list of names
RECURSIVE join(_)
join(tags) ==
  IF tags = <<>> THEN <<>>
  ELSE IF Len(tags) = 1 THEN <<tags[1]>>
  ELSE <<tags[1], Dot>> \o join(Tail(tags))

\* the text of a schema name (names hold no dot)
Text(name) == <<name>>

\* ---------------------------------------------------------------- values
\* In-memory values (Java objects) and wire values (JSON) share one record
\* shape.  k is the kind; t the runtime class of a struct or union object;
\* tag the tag of a union object; n a number; m the text of a string, the
\* items of a list, the field values of a struct object (in all_fields
\* order), the value slots of a union object (in slot order) or the
\* <<key, value>> members of a wire object.
Val(k, t, tag, n, m) == [k |-> k, t |-> t, tag |-> tag, n |-> n, m |-> m]
Null == Val("null", "", "", 0, <<>>)
Num(i) == Val("num", "", "", i, <<>>)
Str(txt) == Val("str", "", "", 0, txt)
Lst(items) == Val("list", "", "", 0, items)
Obj(cls, vals) == Val("struct", cls, "", 0, vals)
Un(cls, tag, slots) == Val("union", cls, tag, 0, slots)

WNum(i) == Val("wnum", "", "", i, <<>>)
WStr(txt) == Val("wstr", "", "", 0, txt)
WArr(items) == Val("warr", "", "", 0, items)
WObj(members) == Val("wobj", "", "", 0, members)

\* x.<name> for a struct object x
Get(x, name) == x.m[IndexOf(all_fields(x.t), name)]
Set(x, name, v) == [x EXCEPT !.m[IndexOf(all_fields(x.t), name)] = v]
\* new T(): every field null
New(t) == Obj(t, [i \in 1..Len(all_fields(t)) |-> Null])

\* ---------------------------------------------------- union value slots
\* The dict unique_value_types of generate_union_complex, as the sequence
\* of <<type_name, value_name>> in insertion order.  The value name is
\* derived from the name of the first field of that type.
RECURSIVE unique_value_types_of(_, _)
unique_value_types_of(fs, acc) ==
  IF fs = <<>> THEN acc
  ELSE LET field == Head(fs)
           type_name == maptype(field.data_type)
           known == \E i \in 1..Len(acc) : acc[i][1] = type_name
       IN IF is_simple_field(field) \/ known
          THEN unique_value_types_of(Tail(fs), acc)
          ELSE unique_value_types_of(Tail(fs),
                 Append(acc, <<type_name, field.name \o "_value">>))

unique_value_types(u) == unique_value_types_of(all_fields(u), <<>>)

SlotIndex(u, type_name) ==
  LET uvt == unique_value_types(u)
  IN CHOOSE i \in 1..Len(uvt) : uvt[i][1] = type_name

\* the value_name a payload-bearing field stores into (its slot)
value_name(u, field) ==
  unique_value_types(u)[SlotIndex(u, maptype(field.data_type))][2]

\* x.<value_name> for union object x and a payload-bearing field
SlotOf(x, field) == x.m[SlotIndex(x.t, maptype(field.data_type))]

\* private constructors: U(Tag t) and U(Tag t, T v)
NewUnion(u, tag) ==
  Un(u, tag, [i \in 1..Len(unique_value_types(u)) |-> Null])
NewUnionV(u, field, v) ==
  Un(u, field.name,
     [i \in 1..Len(unique_value_types(u)) |->
        IF i = SlotIndex(u, maptype(field.data_type)) THEN v ELSE Null])

\* Results of operations that can throw.
Ok(v) == [st |-> "ok", val |-> v]
Err(kind) == [st |-> kind, val |-> Null]

\* public static U f(T v)
factory(u, field, v) ==
  IF ~is_nullable_type(field.data_type) /\ v = Null
  THEN Err("RuntimeException")
  ELSE Ok(NewUnionV(u, field, v))

\* (mutation of getter: the tag is not tested)
getter_unchecked(u, field, x) == Ok(SlotOf(x, field))

\* public T getF()
getter(u, field, x) ==
  IF x.tag # field.name THEN Err("RuntimeException")
  ELSE Ok(SlotOf(x, field))

\* ---- the accessors of the Objective-C union class.  Every variant with
\* a payload has an instance variable _f of its own; the constructor of a
\* variant sets _tag and its own variable and leaves the others nil, so
\* the variable of the tag's variant holds what the value's slot holds.
\* - (instancetype)initWithF:(T)f
union_cstor_func(u, field, value) ==
  IF is_void_type(field.data_type) THEN Ok(NewUnion(u, field.name))
  ELSE Ok(NewUnionV(u, field, value))

\* - (T)f
union_tag_vars_func(u, field, x) ==
  IF x.tag # field.name THEN Err("IllegalStateException")
  ELSE Ok(SlotOf(x, field))

\* A local variable of the generated code that is assigned once and read
\* several times is bound as  Only({ body : x \in {value} })  so that its
\* value is computed once.
Only(S) == CHOOSE x \in S : TRUE

\* ---------------------------------------------------------------- writer
TagKey == ".tag"

RECURSIVE write(_, _), writeFields(_, _), union_write(_, _),
          generate_write_field(_, _), generate_write_value(_, _),
          write_items(_, _)

\* generate_write_value: g.writeString / writeNumber / T._writer.write / array
generate_write_value(data_type, v) ==
  IF is_string_type(data_type) THEN WStr(v.m)
  ELSE IF is_numeric_type(data_type) THEN WNum(v.n)
  ELSE IF is_struct_type(data_type) THEN write(data_type.name, v)
  ELSE IF is_union_type(data_type) THEN union_write(data_type.name, v)
  ELSE WArr(write_items(data_type.elem[1], v.m))

\* the loop over the items of a list: null items are not written
write_items(elem, items) ==
  IF items = <<>> THEN <<>>
  ELSE (IF Head(items) # Null
        THEN <<generate_write_value(elem, Head(items))>> ELSE <<>>)
       \o write_items(elem, Tail(items))

\* generate_write_field: the member <<field.name, value>>
generate_write_field(field, v) ==
  LET ft == field.data_type
  IN IF ~is_nullable_type(ft) /\ is_string_type(ft)
     THEN << <<field.name, WStr(v.m)>> >>
     ELSE IF ~is_nullable_type(ft) /\ is_numeric_type(ft)
     THEN << <<field.name, WNum(v.n)>> >>
     ELSE << <<field.name, generate_write_value(ft, v)>> >>

\* (mutation of write_local_fields: a null field is written all the same,
\* as an explicit null)
RECURSIVE write_local_fields_with_null(_, _)
write_local_fields_with_null(fs, x) ==
  IF fs = <<>> THEN <<>>
  ELSE Only({ IF var # Null THEN generate_write_field(Head(fs), var)
              ELSE << <<Head(fs).name, var>> >> :
              var \in {Get(x, Head(fs).name)} })
       \o write_local_fields_with_null(Tail(fs), x)

\* the loop of writeFields over the fields declared by t itself
RECURSIVE write_local_fields(_, _)
write_local_fields(fs, x) ==
  IF fs = <<>> THEN <<>>
  ELSE Only({ IF var # Null THEN generate_write_field(Head(fs), var)
              ELSE <<>> :
              var \in {Get(x, Head(fs).name)} })
       \o write_local_fields(Tail(fs), x)

\* T._writer.writeFields(x, g)
writeFields(t, x) == write_local_fields(fields[t], x)

\* (mutation of tags_of: only the tag of the class itself is kept)
tags_of_leaf(ancestors) ==
  IF ancestors = <<>> \/ ancestors[Len(ancestors)][1] = "" THEN <<>>
  ELSE <<ancestors[Len(ancestors)][1]>>

\* the non-null tags of an ancestor list
RECURSIVE tags_of(_)
tags_of(ancestors) ==
  IF ancestors = <<>> THEN <<>>
  ELSE (IF Head(ancestors)[1] # "" THEN <<Head(ancestors)[1]>> ELSE <<>>)
       \o tags_of(Tail(ancestors))

RECURSIVE write_ancestor_fields(_, _)
write_ancestor_fields(ancestors, x) ==
  IF ancestors = <<>> THEN <<>>
  ELSE writeFields(Head(ancestors)[2], x)
       \o write_ancestor_fields(Tail(ancestors), x)

\* the object write emits for the ancestor list of its class
write_object(ancestors, x) ==
  Only({ WObj((IF tags # <<>> THEN << <<TagKey, WStr(join(tags))>> >>
               ELSE <<>>)
              \o write_ancestor_fields(ancestors, x)) :
         tags \in {tags_of(ancestors)} })

\* (mutation of write: the writer does not ask x.getWriter())
write_static(t, x) == write_object(get_ancestors(t), x)

\* T._writer.write(x, g) of a struct class
write(t, x) ==
  IF is_member_of_enumerated_subtypes_tree(t) /\ x.t # t
  THEN write(x.t, x)
  ELSE write_object(get_ancestors(t), x)

\* (mutation of doit: the payload is always written under the variant name)
union_write_nested(field, dt, vn) == generate_write_field(field, vn)

\* (mutation of doit: every record payload is collapsed)
union_write_collapse(field, dt, vn) ==
  IF is_struct_type(dt) THEN writeFields(dt.name, vn)
  ELSE generate_write_field(field, vn)

\* doit(dt) of the union writer
union_write_doit(field, dt, vn) ==
  IF is_struct_type(dt) /\ ~has_enumerated_subtypes(dt.name)
  THEN writeFields(dt.name, vn)
  ELSE generate_write_field(field, vn)

\* the body of the case of one value field in the writer's switch
union_write_value(field, vn) ==
  IF is_nullable_type(field.data_type)
  THEN (IF vn # Null
        THEN union_write_doit(field,
               [field.data_type EXCEPT !.nullable = FALSE], vn)
        ELSE <<>>)
  ELSE union_write_doit(field, field.data_type, vn)

\* U._writer.write(x, g) of a union class with value fields
union_write(u, x) ==
  Only({ WObj(<< <<TagKey, WStr(Text(field.name))>> >>
              \o (IF is_simple_field(field) THEN <<>>
                  ELSE Only({ union_write_value(field, vn) :
                              vn \in {SlotOf(x, field)} }))) :
         field \in {FieldNamed(u, x.tag)} })

\* ---------------------------------------------------------------- reader
\* JsonReader.readTags: when the parser stands on the member ".tag" it
\* consumes it and returns its value split on dots, otherwise it returns
\* null and consumes nothing.
readTags(mem) ==
  IF mem = <<>> \/ Head(mem)[1] # TagKey
  THEN [st |-> "ok", present |-> FALSE, tags |-> <<>>, rest |-> mem]
  ELSE IF Head(mem)[2].k # "wstr"
  THEN [st |-> "MalformedWireObject", present |-> FALSE, tags |-> <<>>,
        rest |-> mem]
  ELSE [st |-> "ok", present |-> TRUE, tags |-> split(Head(mem)[2].m),
        rest |-> Tail(mem)]

\* _values.get(text): the static map filled by generate_static_values
RECURSIVE values_get_in(_, _)
values_get_in(fs, text) ==
  IF fs = <<>> THEN ""
  ELSE IF Text(Head(fs).name) = text THEN Head(fs).name
  ELSE values_get_in(Tail(fs), text)

values_get(u, text) == values_get_in(fields[u], text)

RECURSIVE read(_, _, _), readFromTags(_, _, _, _), readFields(_, _, _),
          read_members(_, _, _, _), union_read(_, _, _), mapreader(_, _, _),
          read_items(_, _, _), generate_read_field(_, _, _, _)

\* JsonReader.StringReader / <Number>Reader: the scalar readers
StringReader(w) ==
  IF w.k = "wstr" THEN Ok(Str(w.m)) ELSE Err("MalformedWireObject")
NumberReader(w) ==
  IF w.k = "wnum" THEN Ok(Num(w.n)) ELSE Err("MalformedWireObject")

\* the items of JsonArrayReader.mk(reader), read in order
read_items(elem, ws, ea) ==
  IF ws = <<>> THEN Ok(<<>>)
  ELSE Only({ IF r.st # "ok" THEN r
              ELSE Only({ IF rs.st # "ok" THEN rs
                          ELSE Ok(<<r.val>> \o rs.val) :
                          rs \in {read_items(elem, Tail(ws), ea)} }) :
              r \in {mapreader(elem, Head(ws), ea)} })

JsonArrayReader(elem, w, ea) ==
  IF w.k # "warr" THEN Err("MalformedWireObject")
  ELSE Only({ IF rs.st # "ok" THEN rs ELSE Ok(Lst(rs.val)) :
              rs \in {read_items(elem, w.m, ea)} })

\* mapreader(data_type).read(parser); ea: are Java assertions enabled
mapreader(data_type, w, ea) ==
  IF is_list_type(data_type) THEN JsonArrayReader(data_type.elem[1], w, ea)
  ELSE IF is_struct_type(data_type) THEN read(data_type.name, w, ea)
  ELSE IF is_union_type(data_type) THEN union_read(data_type.name, w, ea)
  ELSE IF is_string_type(data_type) THEN StringReader(w)
  ELSE NumberReader(w)

\* var = mapreader(ft).readField(parser, name, var): a second value for a
\* field that is already set is an error
generate_read_field(field, w, cur, ea) ==
  IF cur # Null THEN Err("DuplicateField")
  ELSE mapreader(field.data_type, w, ea)

\* the while loop of readFields over the remaining members
read_members(t, mem, result, ea) ==
  IF mem = <<>> THEN Ok(result)
  ELSE IF Head(mem)[1] \in FieldNames(all_fields(t))
  THEN Only({ IF r.st # "ok" THEN r
              ELSE read_members(t, Tail(mem),
                                Set(result, Head(mem)[1], r.val), ea) :
              r \in {generate_read_field(FieldNamed(t, Head(mem)[1]),
                                         Head(mem)[2],
                                         Get(result, Head(mem)[1]), ea)} })
  ELSE read_members(t, Tail(mem), result, ea)

\* T._reader.readFields(parser)
readFields(t, mem, ea) == read_members(t, mem, New(t), ea)

\* the asserts of readFromTags on the tags of the ancestors of t
TagsMatchAncestors(t, tags) ==
  \A ancestors \in {get_ancestors(t)} :
     /\ Len(tags) >= Len(ancestors) - 1
     /\ \A i \in 0..(Len(ancestors) - 2) :
          Text(ancestors[i + 2][1]) = tags[i + 1]

\* the subtype of t whose tag equals the piece, or "" when none does
RECURSIVE subtype_for_tag_in(_, _)
subtype_for_tag_in(es, piece) ==
  IF es = <<>> THEN ""
  ELSE IF Text(Head(es)[1]) = piece THEN Head(es)[2]
  ELSE subtype_for_tag_in(Tail(es), piece)

\* the subtype readFromTags of t returns through, or "" when it falls back
subtype_for_tag(t, tg) ==
  Only({ IF has_enumerated_subtypes(t) /\ tg.present /\ Len(tg.tags) > depth
         THEN subtype_for_tag_in(enumerated_subtypes[t], tg.tags[depth + 1])
         ELSE "" :
         depth \in {Len(get_ancestors(t)) - 1} })

\* T._reader.readFromTags(tags, parser); tg.present is "tags != null"
readFromTags(t, tg, mem, ea) ==
  IF parent_type[t] # "" /\ tg.present /\ ea /\ ~TagsMatchAncestors(t, tg.tags)
  THEN Err("AssertionError")
  ELSE Only({ IF sub # "" THEN readFromTags(sub, tg, mem, ea)
              ELSE readFields(t, mem, ea) :
              sub \in {subtype_for_tag(t, tg)} })

\* T._reader.read(parser) of a struct class
read(t, w, ea) ==
  IF w.k # "wobj" THEN Err("MalformedWireObject")
  ELSE IF is_member_of_enumerated_subtypes_tree(t)
  THEN Only({ IF tg.st # "ok" THEN Err(tg.st)
              ELSE readFromTags(t, tg, tg.rest, ea) :
              tg \in {readTags(w.m)} })
  ELSE readFields(t, w.m, ea)

\* the value case of the switch in the object form of the union reader:
\* the payload of field, read from the members after ".tag".  Returns the
\* status, the union value (Null when the case breaks without one) and the
\* members left for expectObjectEnd.
Case(r, left) == [st |-> r.st, val |-> r.val, rest |-> left]

union_read_case(u, field, tags, rest, ea) ==
  IF is_nullable_type(field.data_type) /\ rest = <<>>
  THEN Case(Ok(Null), rest)
  ELSE IF is_struct_type(field.data_type)
          /\ ~has_enumerated_subtypes(field.data_type.name)
  THEN Only({ IF x.st # "ok" THEN Case(x, <<>>)
              ELSE Case(factory(u, field, x.val), <<>>) :
              x \in {readFields(field.data_type.name, rest, ea)} })
  ELSE IF rest = <<>>
  THEN Case(Err(IF ea THEN "AssertionError" ELSE "MalformedWireObject"),
            rest)
  ELSE IF ea /\ tags[1] # Text(Head(rest)[1])
  THEN Case(Err("AssertionError"), rest)
  ELSE Only({ IF x.st # "ok" THEN Case(x, Tail(rest))
              ELSE Case(factory(u, field, x.val), Tail(rest)) :
              x \in {generate_read_field(field, Head(rest)[2], Null, ea)} })

\* the bare-string form of the union reader
union_read_string(u, text) ==
  Only({ IF tag = ""
         THEN (IF catch_all_field[u] # ""
               THEN Ok(NewUnion(u, catch_all_field[u]))
               ELSE Err("UnrecognizedTag"))
         ELSE Only({ IF is_simple_field(field) THEN Ok(NewUnion(u, tag))
                     ELSE IF is_nullable_type(field.data_type)
                     THEN factory(u, field, Null)
                     ELSE Err("TagRequiresValue") :
                     field \in {FieldNamed(u, tag)} }) :
         tag \in {values_get(u, text)} })

\* the switch (tag) of the object form: the Case of the tag found
union_read_switch(u, tag, tg, ea) ==
  IF tag = "" THEN Case(Ok(Null), tg.rest)
  ELSE Only({ IF is_simple_field(field)
              THEN Case(Ok(NewUnion(u, tag)), tg.rest)
              ELSE union_read_case(u, field, tg.tags, tg.rest, ea) :
              field \in {FieldNamed(u, tag)} })

\* the object form after readTags
union_read_object(u, tg, ea) ==
  IF tg.st # "ok" THEN Err(tg.st)
  ELSE IF ea /\ ~(tg.present /\ Len(tg.tags) = 1) THEN Err("AssertionError")
  ELSE IF ~tg.present THEN Err("NullPointerException")
  ELSE IF tg.tags = <<>> THEN Err("ArrayIndexOutOfBounds")
  ELSE Only({ IF c.st # "ok" THEN Err(c.st)
              ELSE IF catch_all_field[u] = "" /\ c.val = Null
              THEN Err("UnrecognizedTag")
              ELSE IF c.rest # <<>> THEN Err("MalformedWireObject")
              ELSE IF c.val = Null THEN Ok(NewUnion(u, catch_all_field[u]))
              ELSE Ok(c.val) :
              c \in {union_read_switch(u, values_get(u, tg.tags[1]), tg,
                                       ea)} })

\* U._reader.read(parser) of a union class with value fields
union_read(u, w, ea) ==
  IF w.k = "wstr" THEN union_read_string(u, w.m)
  ELSE IF w.k # "wobj" THEN Err("MalformedWireObject")
  ELSE Only({ union_read_object(u, tg, ea) : tg \in {readTags(w.m)} })

\* ------------------------------------------------------------- validator
\* todo(ft): will doit() emit any check
todo(ft) ==
  IF is_composite_type(ft) \/ is_list_type(ft) THEN TRUE
  ELSE IF is_numeric_type(ft) \/ is_string_type(ft)
  THEN ft.min # None \/ ft.max # None
  ELSE FALSE

\* mapvalue(ft, default): the literal of a declared default
mapvalue(ft, default) == Num(default)

RECURSIVE validate(_, _), union_validate(_, _), doit(_, _),
          validate_items(_, _), generate_field_validation(_, _, _),
          validate_fields(_, _)

\* the for loop of doit over the items of a list
validate_items(elem, items) ==
  IF items = <<>> THEN Ok(<<>>)
  ELSE IF Head(items) = Null THEN Err("ConstraintViolation")
  ELSE Only({ IF r.st # "ok" THEN r
              ELSE Only({ IF rs.st # "ok" THEN rs
                          ELSE Ok(<<r.val>> \o rs.val) :
                          rs \in {validate_items(elem, Tail(items))} }) :
              r \in {doit(elem, Head(items))} })

OutOfBounds_exclusive(ft, size) ==
  \/ (ft.min # None /\ size <= ft.min)
  \/ (ft.max # None /\ size >= ft.max)

\* the size checks of doit: min_items/max_items, min_length/max_length
OutOfBounds(ft, size) ==
  \/ (ft.min # None /\ size < ft.min)
  \/ (ft.max # None /\ size > ft.max)

\* doit(ft, vn): the type-specific checks of a non-null value
doit(ft, vn) ==
  IF is_struct_type(ft) THEN validate(ft.name, vn)
  ELSE IF is_union_type(ft) THEN union_validate(ft.name, vn)
  ELSE IF is_list_type(ft)
  THEN (IF OutOfBounds(ft, Len(vn.m)) THEN Err("ConstraintViolation")
        ELSE Only({ IF rs.st # "ok" THEN rs ELSE Ok(Lst(rs.val)) :
                    rs \in {validate_items(ft.elem[1], vn.m)} }))
  ELSE IF is_numeric_type(ft)
  THEN (IF OutOfBounds(ft, vn.n) THEN Err("ConstraintViolation") ELSE Ok(vn))
  ELSE IF is_string_type(ft)
  THEN (IF OutOfBounds(ft, Len(vn.m)) THEN Err("ConstraintViolation")
        ELSE Ok(vn))
  ELSE Ok(vn)

\* (mutation of generate_field_validation: the value of a nullable field
\* is not checked)
generate_field_validation_nullable_unchecked(field, vn, is_struct) ==
  IF is_nullable_type(field.data_type) THEN Ok(vn)
  ELSE IF is_struct /\ field.has_default
  THEN (IF vn = Null THEN Ok(mapvalue(field.data_type, field.default))
        ELSE IF todo(field.data_type) THEN doit(field.data_type, vn)
        ELSE Ok(vn))
  ELSE IF vn = Null THEN Err("RequiredValueMissing")
  ELSE doit(field.data_type, vn)

\* (mutation of generate_field_validation: a null field that has a default
\* is left null)
generate_field_validation_no_fill(field, vn, is_struct) ==
  IF is_nullable_type(field.data_type)
  THEN (IF todo(field.data_type) /\ vn # Null
        THEN doit(field.data_type, vn) ELSE Ok(vn))
  ELSE IF is_struct /\ field.has_default
  THEN (IF vn = Null THEN Ok(vn)
        ELSE IF todo(field.data_type) THEN doit(field.data_type, vn)
        ELSE Ok(vn))
  ELSE IF vn = Null THEN Err("RequiredValueMissing")
  ELSE doit(field.data_type, vn)

\* (mutation of generate_field_validation: the null check of a required
\* scalar or list field comes after its type-specific checks, which see
\* the number 0 or the length 0 in place of the missing value)
generate_field_validation_null_last(field, vn, is_struct) ==
  IF is_nullable_type(field.data_type)
  THEN (IF todo(field.data_type) /\ vn # Null
        THEN doit(field.data_type, vn) ELSE Ok(vn))
  ELSE IF is_struct /\ field.has_default
  THEN (IF vn = Null THEN Ok(mapvalue(field.data_type, field.default))
        ELSE IF todo(field.data_type) THEN doit(field.data_type, vn)
        ELSE Ok(vn))
  ELSE IF vn = Null /\ is_composite_type(field.data_type)
  THEN Err("RequiredValueMissing")
  ELSE Only({ IF r.st # "ok" THEN r
              ELSE IF vn = Null THEN Err("RequiredValueMissing") ELSE r :
              r \in {doit(field.data_type, vn)} })

\* generate_field_validation: the checks of one field whose value is vn;
\* is_struct is "value_name is None".  Returns the value of the field
\* after validation.
generate_field_validation(field, vn, is_struct) ==
  IF is_nullable_type(field.data_type)
  THEN (IF todo(field.data_type) /\ vn # Null
        THEN doit(field.data_type, vn) ELSE Ok(vn))
  ELSE IF is_struct /\ field.has_default
  THEN (IF vn = Null THEN Ok(mapvalue(field.data_type, field.default))
        ELSE IF todo(field.data_type) THEN doit(field.data_type, vn)
        ELSE Ok(vn))
  ELSE IF vn = Null THEN Err("RequiredValueMissing")
  ELSE doit(field.data_type, vn)

\* the loop of validate over the fields declared by the class itself
validate_fields(fs, value) ==
  IF fs = <<>> THEN Ok(value)
  ELSE Only({ IF r.st # "ok" THEN r
              ELSE validate_fields(Tail(fs),
                                   Set(value, Head(fs).name, r.val)) :
              r \in {generate_field_validation(
                       Head(fs), Get(value, Head(fs).name), TRUE)} })

\* T._reader.validate(value) of a struct class
validate(t, value) ==
  IF parent_type[t] = "" THEN validate_fields(fields[t], value)
  ELSE Only({ IF p.st # "ok" THEN p ELSE validate_fields(fields[t], p.val) :
              p \in {validate(parent_type[t], value)} })

\* U._reader.validate(value) of a union class with value fields
union_validate(u, value) ==
  Only({ IF is_simple_field(field) THEN Ok(value)
         ELSE Only({ IF r.st # "ok" THEN r
                     ELSE Ok([value EXCEPT
                                !.m[SlotIndex(u, maptype(field.data_type))]
                                  = r.val]) :
                     r \in {generate_field_validation(
                              field, SlotOf(value, field), FALSE)} }) :
         field \in {FieldNamed(u, value.tag)} })

\* The generated validate assigns defaults to the fields of the object it
\* is handed (`value.f = <default>`).  validated_in_place gives that object
\* as validate leaves it, whether it returns or throws.  (Items of lists
\* are records without defaults in this schema and are left as they are.)
RECURSIVE validated_in_place(_, _), fields_in_place(_, _),
          field_in_place(_, _, _), union_validated_in_place(_, _)

field_in_place(field, vn, is_struct) ==
  IF vn = Null
  THEN (IF is_struct /\ field.has_default /\ ~is_nullable_type(field.data_type)
        THEN mapvalue(field.data_type, field.default) ELSE vn)
  ELSE IF is_struct_type(field.data_type)
  THEN validated_in_place(field.data_type.name, vn)
  ELSE IF is_union_type(field.data_type)
  THEN union_validated_in_place(field.data_type.name, vn)
  ELSE vn

fields_in_place(fs, value) ==
  IF fs = <<>> THEN value
  ELSE Only({ IF generate_field_validation(Head(fs), vn, TRUE).st # "ok"
              THEN Set(value, Head(fs).name,
                       field_in_place(Head(fs), vn, TRUE))
              ELSE fields_in_place(
                     Tail(fs), Set(value, Head(fs).name,
                                   field_in_place(Head(fs), vn, TRUE))) :
              vn \in {Get(value, Head(fs).name)} })

validated_in_place(t, value) ==
  IF parent_type[t] = "" THEN fields_in_place(fields[t], value)
  ELSE IF validate(parent_type[t], value).st # "ok"
  THEN validated_in_place(parent_type[t], value)
  ELSE fields_in_place(fields[t], validated_in_place(parent_type[t], value))

union_validated_in_place(u, value) ==
  Only({ IF is_simple_field(field) THEN value
         ELSE [value EXCEPT !.m[SlotIndex(u, maptype(field.data_type))]
                 = field_in_place(field, SlotOf(value, field), FALSE)] :
         field \in {FieldNamed(u, value.tag)} })

\* the fields whose generated checks validate_fields runs, in the order
\* they run, up to and including the first that throws
RECURSIVE checked_fields(_, _)
checked_fields(fs, value) ==
  IF fs = <<>> THEN <<>>
  ELSE Only({ <<Head(fs).name>>
              \o (IF r.st # "ok" THEN <<>>
                  ELSE checked_fields(Tail(fs),
                                      Set(value, Head(fs).name, r.val))) :
              r \in {generate_field_validation(
                       Head(fs), Get(value, Head(fs).name), TRUE)} })

\* (mutation of validate_order: the parent's validator is called last)
RECURSIVE validate_order_parent_last(_, _)
validate_order_parent_last(t, value) ==
  IF parent_type[t] = "" THEN checked_fields(fields[t], value)
  ELSE Only({ IF r.st # "ok" THEN checked_fields(fields[t], value)
              ELSE checked_fields(fields[t], value)
                   \o validate_order_parent_last(parent_type[t], r.val) :
              r \in {validate_fields(fields[t], value)} })

\* the order in which T._reader.validate(value) runs the checks of the
\* fields: the validator of the parent is called before the own fields
RECURSIVE validate_order(_, _)
validate_order(t, value) ==
  IF parent_type[t] = "" THEN checked_fields(fields[t], value)
  ELSE Only({ IF p.st # "ok" THEN validate_order(parent_type[t], value)
              ELSE validate_order(parent_type[t], value)
                   \o checked_fields(fields[t], p.val) :
              p \in {validate(parent_type[t], value)} })

\* ------------------------------------- the Objective-C emitter: validators
\* Python truthiness of an optional bound: declared and not 0
Truthy(x) == x # None /\ x # 0

Validator(kind, min, max, item) ==
  [kind |-> kind, min |-> min, max |-> max, item |-> item, nullable |-> FALSE]
NoValidator == Validator("", None, None, <<>>)

\* _determine_validator_type(data_type): the validator written for a type
\* (kind "": none), wrapped in nullableValidator for a Nullable type
RECURSIVE determine_validator_type(_)
determine_validator_type(data_type) ==
  Only({ [validator EXCEPT
            !.nullable = validator.kind # "" /\ data_type.nullable] :
         validator \in {
           IF is_list_type(data_type)
           THEN Validator("arrayValidator",
                          IF Truthy(data_type.min) THEN data_type.min
                          ELSE None,
                          IF Truthy(data_type.max) THEN data_type.max
                          ELSE None,
                          <<determine_validator_type(data_type.elem[1])>>)
           ELSE IF is_numeric_type(data_type)
           THEN (IF Truthy(data_type.min) \/ Truthy(data_type.max)
                 THEN Validator("numericValidator",
                                IF Truthy(data_type.min) THEN data_type.min
                                ELSE None,
                                IF Truthy(data_type.max) THEN data_type.max
                                ELSE None, <<>>)
                 ELSE NoValidator)
           ELSE IF is_string_type(data_type)
           THEN (IF Truthy(data_type.min) \/ Truthy(data_type.max)
                 THEN Validator("stringValidator",
                                IF Truthy(data_type.min) THEN data_type.min
                                ELSE None,
                                IF Truthy(data_type.max) THEN data_type.max
                                ELSE None, <<>>)
                 ELSE NoValidator)
           ELSE NoValidator } })

\* DbxStoneValidators: what a written validator does to a value.  A message
\* sent to nil answers 0, so a nil value has the number, length and count 0.
RECURSIVE DbxStoneValidators(_, _), validate_array_items(_, _)
validate_array_items(validator, items) ==
  IF items = <<>> THEN Ok(<<>>)
  ELSE Only({ IF r.st # "ok" THEN r
              ELSE validate_array_items(validator, Tail(items)) :
              r \in {DbxStoneValidators(validator, Head(items))} })

DbxStoneValidators(validator, value) ==
  IF validator.kind = "" THEN Ok(value)
  ELSE IF validator.nullable /\ value = Null THEN Ok(value)
  ELSE Only({ IF (validator.min # None /\ size < validator.min)
                 \/ (validator.max # None /\ size > validator.max)
              THEN Err("ConstraintViolation")
              ELSE IF validator.kind = "arrayValidator"
                      /\ validator.item[1].kind # "" /\ value # Null
              THEN Only({ IF r.st # "ok" THEN r ELSE Ok(value) :
                          r \in {validate_array_items(validator.item[1],
                                                      value.m)} })
              ELSE Ok(value) :
              size \in {IF validator.kind = "numericValidator" THEN value.n
                        ELSE Len(value.m)} })

\* _generate_validator for every field of fs, in order
RECURSIVE generate_validators(_, _)
generate_validators(fs, x) ==
  IF fs = <<>> THEN Ok(x)
  ELSE Only({ IF r.st # "ok" THEN r ELSE generate_validators(Tail(fs), x) :
              r \in {DbxStoneValidators(
                       determine_validator_type(Head(fs).data_type),
                       Get(x, Head(fs).name))} })

\* block_init of the constructor: the own fields, a nil one that has a
\* default set to the default
RECURSIVE init_fields(_, _)
init_fields(fs, x) ==
  IF fs = <<>> THEN x
  ELSE init_fields(Tail(fs),
         IF Head(fs).has_default /\ Get(x, Head(fs).name) = Null
         THEN Set(x, Head(fs).name, Num(Head(fs).default)) ELSE x)

\* _generate_struct_cstor: the standard constructor of class t building
\* the object x: validators of all fields, [super init...], own fields
RECURSIVE struct_cstor(_, _)
struct_cstor(t, x) ==
  Only({ IF r.st # "ok" THEN r
         ELSE IF parent_type[t] = "" THEN Ok(init_fields(fields[t], x))
         ELSE Only({ IF p.st # "ok" THEN p
                     ELSE Ok(init_fields(fields[t], p.val)) :
                     p \in {struct_cstor(parent_type[t], x)} }) :
         r \in {generate_validators(all_fields(t), x)} })

\* ------------------------------------ the Objective-C emitter: serializers
\* DataType._get_subtype_tags: the tags that lead to t from the root of
\* its enumerated-subtype tree
RECURSIVE get_subtype_tags(_)
get_subtype_tags(t) ==
  IF parent_type[t] = "" \/ ~has_enumerated_subtypes(parent_type[t])
  THEN <<>>
  ELSE Append(get_subtype_tags(parent_type[t]), TagOf(parent_type[t], t))

\* the loop of get_all_subtypes_with_tags over its queue of subtypes
RECURSIVE subtypes_with_tags(_)
subtypes_with_tags(fifo) ==
  IF fifo = <<>> THEN <<>>
  ELSE << <<get_subtype_tags(Head(fifo)), Head(fifo)>> >>
       \o subtypes_with_tags(
            Tail(fifo)
            \o [i \in 1..Len(enumerated_subtypes[Head(fifo)]) |->
                  enumerated_subtypes[Head(fifo)][i][2]])

\* struct.get_all_subtypes_with_tags(): every subtype below t, with tags
get_all_subtypes_with_tags(t) ==
  subtypes_with_tags([i \in 1..Len(enumerated_subtypes[t]) |->
                        enumerated_subtypes[t][i][2]])

\* `assert len(tags) == 1, tags` holds for every subtype of t; when it
\* does not the emitter stops and t has no serializer and no deserializer
tags_assertion(t) ==
  \A i \in 1..Len(get_all_subtypes_with_tags(t)) :
    Len(get_all_subtypes_with_tags(t)[i][1]) = 1

\* [valueObj isKindOfClass:[c class]]
RECURSIVE isKindOfClass(_, _)
isKindOfClass(t, c) ==
  t # "" /\ (t = c \/ isKindOfClass(parent_type[t], c))

\* valueObj.<name>; a message to nil answers nil
Property(x, name) == IF x = Null THEN Null ELSE Get(x, name)

\* NSDictionary: the members <<key, value>> of a dictionary, one per key
DictHas(dict, key) == \E i \in 1..Len(dict) : dict[i][1] = key
DictGet(dict, key) ==
  IF DictHas(dict, key)
  THEN dict[CHOOSE i \in 1..Len(dict) : dict[i][1] = key][2]
  ELSE Null
DictPut(dict, key, value) ==
  IF DictHas(dict, key)
  THEN [i \in 1..Len(dict) |->
          IF dict[i][1] = key THEN <<key, value>> ELSE dict[i]]
  ELSE Append(dict, <<key, value>>)
DictRemove(dict, key) == SelectSeq(dict, LAMBDA mem : mem[1] # key)

\* jsonDict[key] = r.val for the result r of a serialize call.  A nil
\* value raises NSInvalidArgumentException or removes the key, depending
\* on the Foundation the program runs on (nilok: it removes the key).
DictSet(jsonDict, key, r, nilok) ==
  IF r.st # "ok" THEN r
  ELSE IF r.val # Null THEN Ok(DictPut(jsonDict, key, r.val))
  ELSE IF nilok THEN Ok(DictRemove(jsonDict, key))
  ELSE Err("NSInvalidArgumentException")

\* valueDict[key] of a decoded JSON value; a message to nil answers nil,
\* a value that is no dictionary does not respond
Subscript(valueDict, key) ==
  IF valueDict = Null THEN Ok(Null)
  ELSE IF valueDict.k # "wobj" THEN Err("NSInvalidArgumentException")
  ELSE Ok(DictGet(valueDict.m, key))

RECURSIVE fmt_serialization_call(_, _, _), serialize_items(_, _, _),
          struct_serialize(_, _, _), serialize_fields(_, _, _, _),
          serialize_subtypes(_, _, _, _), union_serialize(_, _, _)

\* the block of DbxArraySerializer applied to the items in order
serialize_items(elem, items, nilok) ==
  IF items = <<>> THEN Ok(<<>>)
  ELSE Only({ IF r.st # "ok" THEN r
              ELSE IF r.val = Null THEN Err("NSInvalidArgumentException")
              ELSE Only({ IF rs.st # "ok" THEN rs
                          ELSE Ok(<<r.val>> \o rs.val) :
                          rs \in {serialize_items(elem, Tail(items),
                                                  nilok)} }) :
              r \in {fmt_serialization_call(elem, Head(items), nilok)} })

\* _fmt_serialization_call(data_type, value, True): the serialize method
\* of the serializer class of the unwrapped type.  The classes for
\* numbers, strings and arrays answer nil for nil.
fmt_serialization_call(data_type, value, nilok) ==
  IF is_struct_type(data_type)
  THEN struct_serialize(data_type.name, value, nilok)
  ELSE IF is_union_type(data_type)
  THEN union_serialize(data_type.name, value, nilok)
  ELSE IF value = Null THEN Ok(Null)
  ELSE IF is_list_type(data_type)
  THEN Only({ IF rs.st # "ok" THEN rs ELSE Ok(WArr(rs.val)) :
              rs \in {serialize_items(data_type.elem[1], value.m, nilok)} })
  ELSE IF is_string_type(data_type) THEN Ok(WStr(value.m))
  ELSE Ok(WNum(value.n))

\* the loop of _generate_struct_serializer over struct.all_fields
serialize_fields(fs, valueObj, jsonDict, nilok) ==
  IF fs = <<>> THEN Ok(jsonDict)
  ELSE IF is_nullable_type(Head(fs).data_type)
          /\ Property(valueObj, Head(fs).name) = Null
  THEN serialize_fields(Tail(fs), valueObj, jsonDict, nilok)
  ELSE Only({ IF d.st # "ok" THEN d
              ELSE serialize_fields(Tail(fs), valueObj, d.val, nilok) :
              d \in {DictSet(jsonDict, Head(fs).name,
                             fmt_serialization_call(
                               Head(fs).data_type,
                               Property(valueObj, Head(fs).name), nilok),
                             nilok)} })

\* for (NSString* key in subTypeFields) jsonDict[key] = subTypeFields[key]
RECURSIVE merge_fields(_, _)
merge_fields(jsonDict, subTypeFields) ==
  IF subTypeFields = <<>> THEN jsonDict
  ELSE merge_fields(DictPut(jsonDict, Head(subTypeFields)[1],
                            Head(subTypeFields)[2]),
                    Tail(subTypeFields))

\* the loop of _generate_struct_serializer over the subtypes
serialize_subtypes(sts, valueObj, jsonDict, nilok) ==
  IF sts = <<>> THEN Ok(jsonDict)
  ELSE IF valueObj = Null \/ ~isKindOfClass(valueObj.t, Head(sts)[2])
  THEN serialize_subtypes(Tail(sts), valueObj, jsonDict, nilok)
  ELSE Only({ IF sub.st # "ok" THEN sub
              ELSE serialize_subtypes(
                     Tail(sts), valueObj,
                     DictPut(merge_fields(jsonDict, sub.val.m), TagKey,
                             WStr(Text(Head(sts)[1][1]))),
                     nilok) :
              sub \in {struct_serialize(Head(sts)[2], valueObj, nilok)} })

\* _generate_struct_serializer: [DbxTSerializer serialize:valueObj]
struct_serialize(t, valueObj, nilok) ==
  IF ~tags_assertion(t) THEN Err("AssertionError")
  ELSE Only({ IF d.st # "ok" THEN d
              ELSE Only({ IF r.st # "ok" THEN r ELSE Ok(WObj(r.val)) :
                          r \in {serialize_subtypes(
                                   get_all_subtypes_with_tags(t),
                                   valueObj, d.val, nilok)} }) :
              d \in {serialize_fields(all_fields(t), valueObj, <<>>,
                                      nilok)} })

\* the body of the branch of one field in _generate_union_serializer
union_serialize_field(field, value, nilok) ==
  Only({ IF d.st # "ok" THEN d
         ELSE Ok(WObj(DictPut(d.val, TagKey, WStr(Text(field.name))))) :
         d \in {IF is_void_type(field.data_type) THEN Ok(<<>>)
                ELSE DictSet(<<>>, field.name,
                             fmt_serialization_call(field.data_type, value,
                                                    nilok),
                             nilok)} })

\* _generate_union_serializer: [DbxUSerializer serialize:valueObj]
union_serialize(u, valueObj, nilok) ==
  IF valueObj = Null \/ valueObj.tag \notin FieldNames(all_fields(u))
  THEN Err("InvalidTagEnum")
  ELSE union_serialize_field(
         FieldNamed(u, valueObj.tag),
         IF is_simple_field(FieldNamed(u, valueObj.tag)) THEN Null
         ELSE SlotOf(valueObj, FieldNamed(u, valueObj.tag)),
         nilok)

RECURSIVE fmt_deserialization_call(_, _), deserialize_items(_, _),
          struct_deserialize(_, _), deserialize_fields(_, _, _),
          deserialize_subtypes(_, _), union_deserialize(_, _)

\* the block of DbxArraySerializer applied to the items in order
deserialize_items(elem, items) ==
  IF items = <<>> THEN Ok(<<>>)
  ELSE Only({ IF r.st # "ok" THEN r
              ELSE Only({ IF rs.st # "ok" THEN rs
                          ELSE Ok(<<r.val>> \o rs.val) :
                          rs \in {deserialize_items(elem, Tail(items))} }) :
              r \in {fmt_deserialization_call(elem, Head(items))} })

\* _fmt_serialization_call(data_type, value, False): the deserialize
\* method of the serializer class of the unwrapped type.  The classes for
\* numbers and strings hand the JSON value over as it is.
fmt_deserialization_call(data_type, value) ==
  IF is_struct_type(data_type) THEN struct_deserialize(data_type.name, value)
  ELSE IF is_union_type(data_type)
  THEN union_deserialize(data_type.name, value)
  ELSE IF value = Null THEN Ok(Null)
  ELSE IF is_list_type(data_type)
  THEN (IF value.k # "warr" THEN Err("NSInvalidArgumentException")
        ELSE Only({ IF rs.st # "ok" THEN rs ELSE Ok(Lst(rs.val)) :
                    rs \in {deserialize_items(data_type.elem[1],
                                              value.m)} }))
  ELSE IF value.k = "wnum" THEN Ok(Num(value.n))
  ELSE IF value.k = "wstr" THEN Ok(Str(value.m))
  ELSE Err("NSInvalidArgumentException")

\* the loop of _generate_struct_deserializer over struct.all_fields: the
\* local variables, as the field values of a new object
deserialize_fields(fs, valueDict, obj) ==
  IF fs = <<>> THEN Ok(obj)
  ELSE Only({ IF input.st # "ok" THEN input
              ELSE IF is_nullable_type(Head(fs).data_type)
                      /\ input.val = Null
              THEN deserialize_fields(Tail(fs), valueDict, obj)
              ELSE Only({ IF r.st # "ok" THEN r
                          ELSE deserialize_fields(
                                 Tail(fs), valueDict,
                                 Set(obj, Head(fs).name, r.val)) :
                          r \in {fmt_deserialization_call(
                                   Head(fs).data_type, input.val)} }) :
              input \in {Subscript(valueDict, Head(fs).name)} })

\* the loop of _generate_struct_deserializer over the subtypes
deserialize_subtypes(sts, valueDict) ==
  IF sts = <<>> THEN Err("InvalidTagEnum")
  ELSE Only({ IF tag.st # "ok" THEN tag
              ELSE IF tag.val.k \notin {"null", "wstr"}
              THEN Err("NSInvalidArgumentException")
              ELSE IF tag.val = WStr(Text(Head(sts)[1][1]))
              THEN struct_deserialize(Head(sts)[2], valueDict)
              ELSE deserialize_subtypes(Tail(sts), valueDict) :
              tag \in {Subscript(valueDict, TagKey)} })

\* _generate_struct_deserializer: [DbxTSerializer deserialize:valueDict]
struct_deserialize(t, valueDict) ==
  IF ~has_enumerated_subtypes(t)
  THEN Only({ IF obj.st # "ok" THEN obj ELSE struct_cstor(t, obj.val) :
              obj \in {deserialize_fields(all_fields(t), valueDict,
                                          New(t))} })
  ELSE IF ~tags_assertion(t) THEN Err("AssertionError")
  ELSE deserialize_subtypes(get_all_subtypes_with_tags(t), valueDict)

\* the branch of one field in _generate_union_deserializer
union_deserialize_field(u, field, valueDict) ==
  IF is_void_type(field.data_type) THEN Ok(NewUnion(u, field.name))
  ELSE Only({ IF input.st # "ok" THEN input
              ELSE IF is_nullable_type(field.data_type) /\ input.val = Null
              THEN Ok(NewUnionV(u, field, Null))
              ELSE Only({ IF r.st # "ok" THEN r
                          ELSE Ok(NewUnionV(u, field, r.val)) :
                          r \in {fmt_deserialization_call(field.data_type,
                                                          input.val)} }) :
              input \in {Subscript(valueDict, field.name)} })

\* _generate_union_deserializer: [DbxUSerializer deserialize:valueDict]
union_deserialize(u, valueDict) ==
  Only({ IF tag.st # "ok" THEN tag
         ELSE IF tag.val.k \notin {"null", "wstr"}
         THEN Err("NSInvalidArgumentException")
         ELSE IF tag.val.k = "wstr" /\ Len(tag.val.m) = 1
                 /\ tag.val.m[1] \in FieldNames(all_fields(u))
         THEN union_deserialize_field(u, FieldNamed(u, tag.val.m[1]),
                                      valueDict)
         ELSE Err("InvalidTagEnum") :
         tag \in {Subscript(valueDict, TagKey)} })

\* [DbxTSerializer serialize:] and [DbxTSerializer deserialize:] for
\* either kind
Serialize(t, x, nilok) ==
  IF t \in UnionNames THEN union_serialize(t, x, nilok)
  ELSE struct_serialize(t, x, nilok)
Deserialize(t, w) ==
  IF t \in UnionNames THEN union_deserialize(t, w)
  ELSE struct_deserialize(t, w)

\* T._writer.write / T._reader.read / T._reader.validate for either kind
Write(t, x) == IF t \in UnionNames THEN union_write(t, x) ELSE write(t, x)
Read(t, w, ea) ==
  IF t \in UnionNames THEN union_read(t, w, ea) ELSE read(t, w, ea)
Validate(t, x) ==
  IF t \in UnionNames THEN union_validate(t, x) ELSE validate(t, x)

\* JsonReader.readFully / fromJson: read, then validate what was read
readFully(t, w, ea) ==
  Only({ IF r.st # "ok" THEN r ELSE Validate(t, r.val) :
         r \in {Read(t, w, ea)} })

\* ------------------------------------------------------ the value space
IntVals == {Num(i) : i \in 0..MaxInt}
StrVals == {Str(<<"a">>), Str(<<"a", "b">>)}
IsBounded(dt) == dt.min # None \/ dt.max # None
BoundVals == {Num(i) : i \in (-1)..(MaxInt + 1)}
BoundStrs ==
  {Str(<<>>), Str(<<"a">>), Str(<<"a", "b">>), Str(<<"a", "b", "c">>)}

RECURSIVE ValuesOf(_), ObjectsOf(_), FieldTuples(_), ClassesOf(_)

\* the lists of at most n items drawn from S
RECURSIVE ListsUpTo(_, _)
ListsUpTo(S, n) ==
  IF n = 0 THEN {<<>>}
  ELSE ListsUpTo(S, n - 1)
       \cup {Append(l, x) : l \in {k \in ListsUpTo(S, n - 1) : Len(k) = n - 1},
                            x \in S}

\* the classes whose instances a variable of static type t can hold: t, and
\* for a member of an enumerated-subtype tree the enumerated descendants
ClassesOf(t) ==
  {t} \cup UNION {ClassesOf(enumerated_subtypes[t][i][2]) :
                    i \in 1..Len(enumerated_subtypes[t])}

\* every assignment of a value or null to each of the fields fs
FieldTuples(fs) ==
  IF fs = <<>> THEN {<<>>}
  ELSE {<<x>> \o rest : x \in ValuesOf(Head(fs).data_type) \cup {Null},
                        rest \in FieldTuples(Tail(fs))}

ObjectsOf(t) ==
  UNION {{Obj(c, vals) : vals \in FieldTuples(all_fields(c))} :
           c \in ClassesOf(t)}

\* the non-null values of a type; a type that declares bounds also gets
\* values on both sides of them
ValuesOf(dt) ==
  IF is_numeric_type(dt)
  THEN (IF IsBounded(dt) THEN BoundVals ELSE IntVals)
  ELSE IF is_string_type(dt)
  THEN (IF IsBounded(dt) THEN BoundStrs ELSE StrVals)
  ELSE IF is_list_type(dt)
  THEN {Lst(l) : l \in ListsUpTo(ValuesOf(dt.elem[1]) \cup {Null},
                                  IF IsBounded(dt) THEN MaxItems + 1
                                  ELSE MaxItems)}
  ELSE IF is_struct_type(dt) THEN ObjectsOf(dt.name)
  ELSE {}

\* the union objects the factories and the static instances give
UnionObjectsOf(u) ==
  UNION {IF is_simple_field(all_fields(u)[i])
         THEN {NewUnion(u, all_fields(u)[i].name)}
         ELSE {factory(u, all_fields(u)[i], x).val :
                 x \in {y \in ValuesOf(all_fields(u)[i].data_type)
                               \cup {Null} :
                          factory(u, all_fields(u)[i], y).st = "ok"}} :
           i \in 1..Len(all_fields(u))}

\* the classes whose codec is exercised, and the classes whose validator is
TypeNames == {"A", "B", "C", "P", "Q", "M", "H"} \cup UnionNames
ValidatedNames ==
  {"A", "B", "C", "Q", "VN", "VB", "VS", "VL", "VLL", "VLS", "VO", "VD"}
InputsOf(t) == IF t \in UnionNames THEN UnionObjectsOf(t) ELSE ObjectsOf(t)

\* ----------------------------------------------------- the state machine
VARIABLES
  T,        \* the class whose writer and reader are used
  v,        \* the value handed to the writer
  ea,       \* whether Java assertions are enabled in this run
  wire,     \* the object in flight (Null before encoding)
  ntamper,  \* how many changes the object in flight has undergone
  op,       \* how the object was decoded: "none", "read", "fromJson"
  res,      \* the result of decoding
  wire2,    \* the re-encoding of the decoded value (Null before)
  checked,  \* the fields whose checks a validation ran, in order
  ores,     \* the result of the same operation in the Objective-C codec
  owire,    \* the result of encoding v with the Objective-C serializer
  phases,   \* the states a decode taken step by step has entered, in order
  rest,     \* the members of the object that decode has not consumed yet
  acc,      \* the value that decode is building (Null before `new T()`)
  disp,     \* the tags that decode has read and the class or variant they
            \* have selected so far
  arg,      \* the caller's object a route call and toJson are handed (the
            \* object v as the calls made so far have left it)
  call      \* the accessor calls made on a union: the variant f and the
            \* payload x handed to its factory, the variant g of the getter

vars ==
  <<T, v, ea, wire, ntamper, op, res, wire2, checked, ores, owire,
    phases, rest, acc, disp, arg, call>>

NoRes == [st |-> "none", val |-> Null]
NoDisp == [present |-> FALSE, tags |-> <<>>, cls |-> ""]
NoCall == [f |-> "", x |-> Null, g |-> ""]

Init ==
  /\ T \in TypeNames
  /\ v \in InputsOf(T)
  /\ ea \in BOOLEAN
  /\ wire = Null
  /\ ntamper = 0
  /\ op = "none"
  /\ res = NoRes
  /\ wire2 = Null
  /\ checked = <<>>
  /\ ores = NoRes
  /\ owire = NoRes
  /\ phases = <<>>
  /\ rest = <<>>
  /\ acc = Null
  /\ disp = NoDisp
  /\ arg = Null
  /\ call = NoCall

\* x.toJson(): the writer of T encodes v
Encode ==
  /\ wire = Null
  /\ wire' = Write(T, v)
  /\ UNCHANGED <<T, v, ea, ntamper, op, res, wire2, checked, ores, owire,
               phases, rest, acc, disp, arg, call>>

\* Changes to the object in flight that a peer with another version of the
\* schema (or a faulty one) produces.
CanTamper == wire # Null /\ op = "none" /\ ntamper < MaxTamper

\* the texts a peer may send as ".tag": names the class knows, names it
\* does not, and dotted paths
TagTexts ==
  IF T \in {"R", "S"} THEN {<<"z">>, <<"s">>}
  ELSE IF T \in UnionNames
  THEN {<<"z">>, <<"ok">>, <<"opt">>, <<"info">>, <<"cnt">>, <<"lst">>,
        <<"ok", Dot, "z">>, <<Dot>>}
  ELSE IF is_member_of_enumerated_subtypes_tree(T)
  THEN {<<"z">>, <<"b">>, <<"c">>, <<"b", Dot, "c">>, <<"b", Dot, "z">>,
        <<"z", Dot, "c">>, <<"b", Dot>>, <<Dot>>}
  ELSE {<<"z">>}

\* values of a shape the reader of the member does not expect
ScrapValues == {WNum(0), WStr(<<"a">>)}

\* the key and the values of a member no class of the schema has a field
\* for: a scalar, and an object that carries a ".tag" of its own
UnknownKey == "zzz"
UnknownValues == {WNum(0), WObj(<< <<TagKey, WStr(<<"b">>)>> >>)}

\* a member the reader has no field for, first or last in the object
AddUnknownKey ==
  /\ CanTamper /\ wire.k = "wobj"
  /\ \E front \in BOOLEAN, w \in UnknownValues :
       wire' = WObj(IF front THEN << <<UnknownKey, w>> >> \o wire.m
                    ELSE Append(wire.m, <<UnknownKey, w>>))
  /\ ntamper' = ntamper + 1
  /\ UNCHANGED <<T, v, ea, op, res, wire2, checked, ores, owire,
               phases, rest, acc, disp, arg, call>>

\* a member is missing
DropMember ==
  /\ CanTamper /\ wire.k = "wobj"
  /\ \E i \in 1..Len(wire.m) :
       wire' = WObj(SubSeq(wire.m, 1, i - 1)
                    \o SubSeq(wire.m, i + 1, Len(wire.m)))
  /\ ntamper' = ntamper + 1
  /\ UNCHANGED <<T, v, ea, op, res, wire2, checked, ores, owire,
               phases, rest, acc, disp, arg, call>>

\* the object carries another ".tag" (replaced, or put first when absent)
SetTag ==
  /\ CanTamper /\ wire.k = "wobj"
  /\ \E txt \in TagTexts :
       wire' = WObj(<< <<TagKey, WStr(txt)>> >>
                    \o (IF wire.m # <<>> /\ Head(wire.m)[1] = TagKey
                        THEN Tail(wire.m) ELSE wire.m))
  /\ ntamper' = ntamper + 1
  /\ UNCHANGED <<T, v, ea, op, res, wire2, checked, ores, owire,
               phases, rest, acc, disp, arg, call>>

\* an object holding only ".tag" is sent as the bare tag string
ToBareString ==
  /\ CanTamper /\ wire.k = "wobj"
  /\ Len(wire.m) = 1 /\ Head(wire.m)[1] = TagKey
  /\ wire' = WStr(Head(wire.m)[2].m)
  /\ ntamper' = ntamper + 1
  /\ UNCHANGED <<T, v, ea, op, res, wire2, checked, ores, owire,
               phases, rest, acc, disp, arg, call>>

\* a member (or the whole object) has a value of another shape
ReplaceValue ==
  /\ CanTamper /\ wire.k = "wobj"
  /\ \E i \in 0..Len(wire.m), w \in ScrapValues :
       wire' = IF i = 0 THEN w
               ELSE WObj([wire.m EXCEPT ![i] = <<wire.m[i][1], w>>])
  /\ ntamper' = ntamper + 1
  /\ UNCHANGED <<T, v, ea, op, res, wire2, checked, ores, owire,
               phases, rest, acc, disp, arg, call>>

\* T._reader.read(parser)
Decode ==
  /\ wire # Null /\ op = "none"
  /\ op' = "read"
  /\ res' = Read(T, wire, ea)
  /\ UNCHANGED <<T, v, ea, wire, ntamper, wire2, checked, ores, owire,
               phases, rest, acc, disp, arg, call>>

\* T.fromJson(s)
FromJson ==
  /\ wire # Null /\ op = "none"
  /\ op' = "fromJson"
  /\ res' = readFully(T, wire, ea)
  /\ UNCHANGED <<T, v, ea, wire, ntamper, wire2, checked, ores, owire,
               phases, rest, acc, disp, arg, call>>

\* the decoded value is encoded again
ReEncode ==
  /\ res.st = "ok" /\ wire2 = Null
  /\ wire2' = Write(T, res.val)
  /\ UNCHANGED <<T, v, ea, wire, ntamper, op, res, checked, ores, owire,
               phases, rest, acc, disp, arg, call>>

Next ==
  \/ Encode
  \/ AddUnknownKey
  \/ DropMember
  \/ SetTag
  \/ ToBareString
  \/ ReplaceValue
  \/ Decode
  \/ FromJson
  \/ ReEncode

Spec == Init /\ [][Next]_vars

\* ---- the validators alone: T._reader.validate(v) for values on both
\* sides of every declared constraint
InitV ==
  /\ T \in ValidatedNames
  /\ v \in InputsOf(T)
  /\ ea = FALSE
  /\ wire = Null
  /\ ntamper = 0
  /\ op = "none"
  /\ res = NoRes
  /\ wire2 = Null
  /\ checked = <<>>
  /\ ores = NoRes
  /\ owire = NoRes
  /\ phases = <<>>
  /\ rest = <<>>
  /\ acc = Null
  /\ disp = NoDisp
  /\ arg = Null
  /\ call = NoCall

\* T._reader.validate(v), and the constructor of the Objective-C class
\* of v called with the fields of v
DoValidate ==
  /\ op = "none" /\ wire = Null
  /\ op' = "validate"
  /\ res' = validate(T, v)
  /\ checked' = validate_order(T, v)
  /\ ores' = struct_cstor(v.t, v)
  /\ UNCHANGED <<T, v, ea, wire, ntamper, wire2, owire,
               phases, rest, acc, disp, arg, call>>

NextV == DoValidate

SpecV == InitV /\ [][NextV]_vars

\* --------------------------------- both emitters on one value, one object
\* the classes both emitters are run on: plain records, the tree of one
\* level, the tree of two levels, the unions
BothNames == {"P", "Q", "M", "H", "R", "S", "A", "C", "E", "U"}

InitO ==
  /\ T \in BothNames
  /\ v \in InputsOf(T)
  /\ ea = FALSE
  /\ wire = Null
  /\ ntamper = 0
  /\ op = "none"
  /\ res = NoRes
  /\ wire2 = Null
  /\ checked = <<>>
  /\ ores = NoRes
  /\ owire = NoRes
  /\ phases = <<>>
  /\ rest = <<>>
  /\ acc = Null
  /\ disp = NoDisp
  /\ arg = Null
  /\ call = NoCall

\* v is encoded by the Java writer of T and by the Objective-C serializer
\* of T
EncodeBoth ==
  /\ wire = Null
  /\ wire' = Write(T, v)
  /\ \E nilok \in BOOLEAN : owire' = Serialize(T, v, nilok)
  /\ UNCHANGED <<T, v, ea, ntamper, op, res, wire2, checked, ores,
               phases, rest, acc, disp, arg, call>>

\* the object in flight is decoded by the Java reader of T and by the
\* Objective-C deserializer of T
DecodeBoth ==
  /\ wire # Null /\ op = "none"
  /\ op' = "both"
  /\ res' = Read(T, wire, ea)
  /\ ores' = Deserialize(T, wire)
  /\ UNCHANGED <<T, v, ea, wire, ntamper, wire2, checked, owire,
               phases, rest, acc, disp, arg, call>>

NextO == EncodeBoth \/ SetTag \/ DecodeBoth

SpecO == InitO /\ [][NextO]_vars

\* ------------------------------- the reader of one object, step by step
\* The body of read (struct classes) and of the object form of read (union
\* classes), one statement of the generated code per step.  The position
\* of the reader is the last entry of phases.
StepNames == {"A", "B", "C", "P", "H", "E", "U"}

Phase == IF phases = <<>> THEN "idle" ELSE phases[Len(phases)]
Enter(ph) == phases' = Append(phases, ph)
\* throw: the exception leaves read, nothing is returned
Throw(kind) == Enter("Error") /\ res' = Err(kind)

\* (mutation of after_object_start: readFields is called right away)
after_object_start_fields_first(t) == "ReadingFields"

\* the statement that follows expectObjectStart
after_object_start(t) ==
  IF t \in UnionNames \/ is_member_of_enumerated_subtypes_tree(t)
  THEN "ReadingTagPath" ELSE "ReadingFields"

InitD ==
  /\ T \in StepNames
  /\ v \in InputsOf(T)
  /\ ea \in BOOLEAN
  /\ wire = Null
  /\ ntamper = 0
  /\ op = "none"
  /\ res = NoRes
  /\ wire2 = Null
  /\ checked = <<>>
  /\ ores = NoRes
  /\ owire = NoRes
  /\ phases = <<>>
  /\ rest = <<>>
  /\ acc = Null
  /\ disp = NoDisp
  /\ arg = Null
  /\ call = NoCall

\* T._reader.read(parser) is called on an object (the bare-string form of
\* a union is not an object and is left to Decode)
StartDecode ==
  /\ wire # Null /\ op = "none"
  /\ ~(T \in UnionNames /\ wire.k = "wstr")
  /\ op' = "steps"
  /\ Enter("ExpectObjectStart")
  /\ UNCHANGED <<T, v, ea, wire, ntamper, res, wire2, checked, ores, owire,
                 rest, acc, disp, arg, call>>

\* JsonReader.expectObjectStart(parser)
ExpectObjectStart ==
  /\ Phase = "ExpectObjectStart"
  /\ IF wire.k # "wobj"
     THEN Throw("MalformedWireObject") /\ UNCHANGED <<rest, acc>>
     ELSE /\ Enter(after_object_start(T))
          /\ rest' = wire.m
          /\ acc' = IF after_object_start(T) = "ReadingFields"
                    THEN New(T) ELSE acc
          /\ UNCHANGED res
  /\ UNCHANGED <<T, v, ea, wire, ntamper, op, wire2, checked, ores, owire,
                 disp, arg, call>>

\* String[] tags = readTags(parser)
ReadTagPath ==
  /\ Phase = "ReadingTagPath"
  /\ \E tg \in {readTags(rest)} :
       IF tg.st # "ok"
       THEN Throw(tg.st) /\ UNCHANGED <<rest, disp>>
       ELSE /\ Enter("DispatchSubtype")
            /\ rest' = tg.rest
            /\ disp' = [present |-> tg.present, tags |-> tg.tags, cls |-> T]
            /\ UNCHANGED res
  /\ UNCHANGED <<T, v, ea, wire, ntamper, op, wire2, checked, ores, owire,
                 acc, arg, call>>

\* one call of readFromTags (struct classes): the asserts on the tags of
\* the ancestors, then the return through the reader of a subtype or the
\* call of readFields
dispatch_struct ==
  IF parent_type[disp.cls] # "" /\ disp.present /\ ea
       /\ ~TagsMatchAncestors(disp.cls, disp.tags)
  THEN Throw("AssertionError") /\ UNCHANGED <<acc, disp>>
  ELSE \E sub \in {subtype_for_tag(disp.cls, disp)} :
         IF sub # ""
         THEN /\ disp' = [disp EXCEPT !.cls = sub]
              /\ UNCHANGED <<phases, res, acc>>
         ELSE /\ Enter("ReadingFields")
              /\ acc' = New(disp.cls)
              /\ UNCHANGED <<res, disp>>

\* the assert on tags, _values.get(tags[0]) and the entry of the switch
\* (union classes)
dispatch_union ==
  IF ea /\ ~(disp.present /\ Len(disp.tags) = 1)
  THEN Throw("AssertionError") /\ UNCHANGED <<acc, disp>>
  ELSE IF ~disp.present
  THEN Throw("NullPointerException") /\ UNCHANGED <<acc, disp>>
  ELSE IF disp.tags = <<>>
  THEN Throw("ArrayIndexOutOfBounds") /\ UNCHANGED <<acc, disp>>
  ELSE \E tag \in {values_get(T, disp.tags[1])} :
         IF tag = ""
         THEN Enter("ExpectObjectEnd") /\ UNCHANGED <<res, acc, disp>>
         ELSE IF is_simple_field(FieldNamed(T, tag))
         THEN /\ Enter("ExpectObjectEnd")
              /\ acc' = NewUnion(T, tag)
              /\ UNCHANGED <<res, disp>>
         ELSE /\ Enter("ReadingFields")
              /\ disp' = [disp EXCEPT !.cls = tag]
              /\ UNCHANGED <<res, acc>>

DispatchSubtype ==
  /\ Phase = "DispatchSubtype"
  /\ IF T \in UnionNames THEN dispatch_union ELSE dispatch_struct
  /\ UNCHANGED <<T, v, ea, wire, ntamper, op, wire2, checked, ores, owire,
                 rest, arg, call>>

\* one turn of the while loop of readFields, or its exit
read_one_member ==
  IF rest = <<>>
  THEN Enter("ExpectObjectEnd") /\ UNCHANGED <<res, rest, acc>>
  ELSE IF Head(rest)[1] \in FieldNames(all_fields(acc.t))
  THEN \E r \in {generate_read_field(FieldNamed(acc.t, Head(rest)[1]),
                                     Head(rest)[2],
                                     Get(acc, Head(rest)[1]), ea)} :
         IF r.st # "ok"
         THEN Throw(r.st) /\ UNCHANGED <<rest, acc>>
         ELSE /\ acc' = Set(acc, Head(rest)[1], r.val)
              /\ rest' = Tail(rest)
              /\ UNCHANGED <<phases, res>>
  ELSE rest' = Tail(rest) /\ UNCHANGED <<phases, res, acc>>

\* the case of a value field in the switch of the union reader
read_payload ==
  \E c \in {union_read_case(T, FieldNamed(T, disp.cls), disp.tags, rest,
                            ea)} :
    IF c.st # "ok"
    THEN Throw(c.st) /\ UNCHANGED <<rest, acc>>
    ELSE /\ Enter("ExpectObjectEnd")
         /\ acc' = c.val
         /\ rest' = c.rest
         /\ UNCHANGED res

ReadingFields ==
  /\ Phase = "ReadingFields"
  /\ IF T \in UnionNames THEN read_payload ELSE read_one_member
  /\ UNCHANGED <<T, v, ea, wire, ntamper, op, wire2, checked, ores, owire,
                 disp, arg, call>>

\* JsonReader.expectObjectEnd(parser) and the return; in a union reader
\* the test of `value == null` stands before and after it
ExpectObjectEnd ==
  /\ Phase = "ExpectObjectEnd"
  /\ IF T \in UnionNames /\ catch_all_field[T] = "" /\ acc = Null
     THEN Throw("UnrecognizedTag")
     ELSE IF rest # <<>>
     THEN Throw("MalformedWireObject")
     ELSE /\ Enter("Done")
          /\ res' = Ok(IF T \in UnionNames /\ acc = Null
                       THEN NewUnion(T, catch_all_field[T]) ELSE acc)
  /\ UNCHANGED <<T, v, ea, wire, ntamper, op, wire2, checked, ores, owire,
                 rest, acc, disp, arg, call>>

NextD ==
  \/ Encode
  \/ AddUnknownKey
  \/ DropMember
  \/ SetTag
  \/ ReplaceValue
  \/ StartDecode
  \/ ExpectObjectStart
  \/ ReadTagPath
  \/ DispatchSubtype
  \/ ReadingFields
  \/ ExpectObjectEnd

SpecD == InitD /\ [][NextD]_vars

\* ------------------------------ calls that share one argument object
\* The caller holds the object arg and hands it, in any order, to toJson
\* and to a route method, which validates it and then writes it as the
\* body of the request.
RouteNames == {"M", "P", "A", "H", "U"}

ValidatedInPlace(t, x) ==
  IF t \in UnionNames THEN union_validated_in_place(t, x)
  ELSE validated_in_place(t, x)

InitR ==
  /\ T \in RouteNames
  /\ v \in InputsOf(T)
  /\ ea = FALSE
  /\ wire = Null
  /\ ntamper = 0
  /\ op = "none"
  /\ res = NoRes
  /\ wire2 = Null
  /\ checked = <<>>
  /\ ores = NoRes
  /\ owire = NoRes
  /\ phases = <<>>
  /\ rest = <<>>
  /\ acc = Null
  /\ disp = NoDisp
  /\ arg = v
  /\ call = NoCall

\* arg.toJson()
ToJson ==
  /\ wire = Null
  /\ wire' = Write(T, arg)
  /\ UNCHANGED <<T, v, ea, ntamper, op, res, wire2, checked, ores, owire,
                 phases, rest, acc, disp, arg, call>>

\* a route method called with arg: T._reader.validate(arg), then the
\* request whose body is written by T._writer
RouteCall ==
  /\ op = "none"
  /\ op' = "route"
  /\ res' = Validate(T, arg)
  /\ arg' = ValidatedInPlace(T, arg)
  /\ wire2' = IF Validate(T, arg).st = "ok"
              THEN Write(T, ValidatedInPlace(T, arg)) ELSE wire2
  /\ UNCHANGED <<T, v, ea, wire, ntamper, checked, ores, owire,
                 phases, rest, acc, disp, call>>

NextR == ToJson \/ RouteCall

SpecR == InitR /\ [][NextR]_vars

\* ------------------------------------- the accessors of a union class
\* A union value is built by the factory of a variant f (Java) and by the
\* constructor of f (Objective-C); then the getter of a variant g is
\* called on what was built.
InitU ==
  /\ T \in UnionNames
  /\ v = Null
  /\ ea = FALSE
  /\ wire = Null
  /\ ntamper = 0
  /\ op = "none"
  /\ res = NoRes
  /\ wire2 = Null
  /\ checked = <<>>
  /\ ores = NoRes
  /\ owire = NoRes
  /\ phases = <<>>
  /\ rest = <<>>
  /\ acc = Null
  /\ disp = NoDisp
  /\ arg = Null
  /\ call = NoCall

\* U.f(x) and [[DbxU alloc] initWithF:x]
CallFactory ==
  /\ op = "none"
  /\ \E f \in {all_fields(T)[i] : i \in 1..Len(all_fields(T))} :
       \E x \in (IF is_simple_field(f) THEN {Null} ELSE ValuesOf(f.data_type) \cup {Null}) :
         /\ call' = [call EXCEPT !.f = f.name, !.x = x]
         /\ res' = IF is_simple_field(f) THEN Ok(NewUnion(T, f.name))
                   ELSE factory(T, f, x)
         /\ v' = IF is_simple_field(f) THEN NewUnion(T, f.name)
                 ELSE factory(T, f, x).val
         /\ ores' = union_cstor_func(T, f, x)
  /\ op' = "factory"
  /\ UNCHANGED <<T, ea, wire, ntamper, wire2, checked, owire,
                 phases, rest, acc, disp, arg>>

\* u.getG() on the Java value (when its factory returned one) and [u g] on
\* the Objective-C value
CallGetter ==
  /\ op = "factory"
  /\ \E g \in {f \in {all_fields(T)[i] : i \in 1..Len(all_fields(T))} :
                 ~is_simple_field(f)} :
       /\ call' = [call EXCEPT !.g = g.name]
       /\ res' = IF res.st = "ok" THEN getter(T, g, v) ELSE res
       /\ ores' = union_tag_vars_func(T, g, ores.val)
  /\ op' = "getter"
  /\ UNCHANGED <<T, v, ea, wire, ntamper, wire2, checked, owire,
                 phases, rest, acc, disp, arg>>

NextU == CallFactory \/ CallGetter

SpecU == InitU /\ [][NextU]_vars

\* ============================================================ properties
\* What the schema above is expected to look like on the wire, written out
\* by hand: the chain of each member of the tree A <- B <- C, root first,
\* and its ".tag" path.
TreeNames == {"A", "B", "C"}
ChainOf == [A |-> <<"A">>, B |-> <<"A", "B">>, C |-> <<"A", "B", "C">>]
TagPathOf == [A |-> <<>>, B |-> <<"b">>, C |-> <<"b", Dot, "c">>]

\* the wire form of a scalar
Scalar(x) == IF x.k = "num" THEN WNum(x.n) ELSE WStr(x.m)

\* the members <<name, value>> of the non-null scalar fields fs of x
RECURSIVE MembersOf(_, _)
MembersOf(fs, x) ==
  IF fs = <<>> THEN <<>>
  ELSE (IF Get(x, Head(fs).name) # Null
        THEN << <<Head(fs).name, Scalar(Get(x, Head(fs).name))>> >>
        ELSE <<>>)
       \o MembersOf(Tail(fs), x)

\* the locally declared fields of every class of a chain, root first
RECURSIVE ChainMembers(_, _)
ChainMembers(chain, x) ==
  IF chain = <<>> THEN <<>>
  ELSE MembersOf(fields[Head(chain)], x) \o ChainMembers(Tail(chain), x)

CountKey(w, key) == Cardinality({i \in 1..Len(w.m) : w.m[i][1] = key})

Encoded == wire # Null /\ ntamper = 0
Valid == Validate(T, v) = Ok(v)

\* C1: round trip.  For every type T and every value v that satisfies the
\* constraints of T, decoding with T what the writer of T produced for v
\* succeeds and yields a value equal to v.
C1_RoundTrip ==
  (Encoded /\ Valid /\ op # "none") => (res.st = "ok" /\ res.val = v)

\* C2 as stated: every member of the enumerated-subtype tree, the root
\* included, is encoded with exactly one ".tag" member holding the joined
\* tags of its chain, followed by the locally declared fields of every
\* class of the chain, root first.
C2_TagAlways ==
  (Encoded /\ T \in TreeNames) =>
    /\ CountKey(wire, TagKey) = 1
    /\ wire.m = << <<TagKey, WStr(TagPathOf[v.t])>> >>
                \o ChainMembers(ChainOf[v.t], v)

\* C2 amended: a member below the root is encoded with exactly one ".tag"
\* member, first in the object, holding the dot-joined tags of its chain
\* ("b.c" for a C); the root itself is encoded without any ".tag" member.
\* In both cases the fields follow, the locally declared fields of every
\* class of the chain, root first.
C2_TagBelowRoot ==
  (Encoded /\ T \in TreeNames) =>
    /\ CountKey(wire, TagKey) = (IF v.t = "A" THEN 0 ELSE 1)
    /\ wire.m = (IF v.t = "A" THEN <<>>
                 ELSE << <<TagKey, WStr(TagPathOf[v.t])>> >>)
                \o ChainMembers(ChainOf[v.t], v)

C2_Witness ==
  /\ Encoded /\ T = "A" /\ v.t = "C"
  /\ wire.m[1] = <<TagKey, WStr(<<"b", Dot, "c">>)>>
  /\ Len(wire.m) = 4

\* C3: a member of the tree is encoded by the writer of its runtime class,
\* whichever writer is invoked: the writer of every class that the value is
\* an instance of produces the object that was sent.
C3_RuntimeWriter ==
  (Encoded /\ T \in TreeNames) =>
    \A t \in TreeNames : IsKindOf(v.t, t) => write(t, v) = wire

C3_Witness ==
  /\ Encoded /\ T = "A" /\ v.t = "C"
  /\ write("B", v) = wire /\ write("C", v) = wire
  /\ CountKey(wire, "cf") = 1

\* ---- unions: the variant of the value in hand and its payload
Variant == FieldNamed(T, v.tag)
Payload == SlotOf(v, Variant)
HasPayload ==
  T \in UnionNames /\ ~is_simple_field(Variant) /\ Payload # Null
PayloadFields(u) ==
  {all_fields(u)[i] : i \in {j \in 1..Len(all_fields(u)) :
                               ~is_simple_field(all_fields(u)[j])}}
TagMember(name) == <<TagKey, WStr(<<name>>)>>

\* C4: decoding against the root or an interior class of the tree an object
\* whose ".tag" is any text never fails; the result is an instance of the
\* deepest class the walk of the dot-separated segments reaches through
\* the declared (tag, subtype) pairs (the class decoded against when the
\* walk stops short of it), populated from the fields of that class and
\* its ancestors only.
Segments(txt) == SelectSeq(txt, LAMBDA c : c # Dot)

RECURSIVE Walk(_, _)
Walk(t, segs) ==
  IF segs = <<>> THEN t
  ELSE IF \E i \in 1..Len(enumerated_subtypes[t]) :
            enumerated_subtypes[t][i][1] = Head(segs)
  THEN Walk(enumerated_subtypes[t][
              CHOOSE i \in 1..Len(enumerated_subtypes[t]) :
                enumerated_subtypes[t][i][1] = Head(segs)][2], Tail(segs))
  ELSE t

Resolved(t, txt) ==
  IF IsKindOf(Walk("A", Segments(txt)), t) THEN Walk("A", Segments(txt))
  ELSE t

Retagged ==
  /\ T \in {"A", "B"} /\ wire.k = "wobj" /\ wire.m # <<>>
  /\ wire.m[1][1] = TagKey /\ wire.m[1][2].k = "wstr"
  /\ Tail(wire.m) = ChainMembers(ChainOf[v.t], v)

PopulatedFrom(x, src) ==
  \A i \in 1..Len(all_fields(x.t)) :
     x.m[i] = (IF all_fields(x.t)[i].name \in FieldNames(all_fields(src.t))
               THEN Get(src, all_fields(x.t)[i].name) ELSE Null)

C4_WalkNeverFails ==
  (op = "read" /\ Retagged) =>
    /\ res.st = "ok"
    /\ res.val.t = Resolved(T, wire.m[1][2].m)
    /\ PopulatedFrom(res.val, v)

\* C5: decoding an object or a bare string whose tag (a name without dots)
\* names no declared variant yields the catch-all variant, without error,
\* when the union declares one, and fails with UnrecognizedTag when it
\* declares none.
DeclaredTags(u) == {<<n>> : n \in FieldNames(all_fields(u))}

Undeclared(u, txt) ==
  Len(txt) = 1 /\ txt[1] # Dot /\ txt \notin DeclaredTags(u)

UnknownTagged ==
  \/ wire.k = "wstr" /\ Undeclared(T, wire.m)
  \/ /\ wire.k = "wobj" /\ wire.m # <<>>
     /\ wire.m[1][1] = TagKey /\ wire.m[1][2].k = "wstr"
     /\ Undeclared(T, wire.m[1][2].m)

C5_CatchAll ==
  (op # "none" /\ T \in UnionNames /\ UnknownTagged) =>
    IF catch_all_field[T] # ""
    THEN res = Ok(NewUnion(T, catch_all_field[T]))
    ELSE res.st = "UnrecognizedTag"

\* C6: a variant whose payload is a plain record (no ancestors, not in an
\* enumerated-subtype tree) is encoded as ".tag" followed by the fields of
\* the record in the same object; no member is named after the variant.
PlainRecords == {"P", "M"}

C6_Collapsed ==
  (Encoded /\ HasPayload /\ Variant.data_type.name \in PlainRecords) =>
    /\ wire = WObj(<<TagMember(v.tag)>>
                   \o MembersOf(all_fields(Variant.data_type.name), Payload))
    /\ CountKey(wire, v.tag) = 0

C6_Witness ==
  /\ Encoded /\ T = "U" /\ v.tag = "info"
  /\ wire = WObj(<<TagMember("info"), <<"x", WNum(1)>>, <<"y", WNum(0)>> >>)

\* the wire form of a payload that is not collapsed
RECURSIVE ItemsWire(_)
ItemsWire(items) ==
  IF items = <<>> THEN <<>>
  ELSE (IF Head(items) # Null THEN <<Scalar(Head(items))>> ELSE <<>>)
       \o ItemsWire(Tail(items))

TreeWire(x) ==
  WObj((IF x.t = "A" THEN <<>>
        ELSE << <<TagKey, WStr(TagPathOf[x.t])>> >>)
       \o ChainMembers(ChainOf[x.t], x))

PayloadWire(x) ==
  IF x.k = "list" THEN WArr(ItemsWire(x.m))
  ELSE IF x.k = "struct" THEN TreeWire(x)
  ELSE Scalar(x)

Nested == wire = WObj(<<TagMember(v.tag), <<v.tag, PayloadWire(Payload)>> >>)

\* C7 as stated: a variant whose payload is a list, a scalar or a record of
\* an enumerated-subtype tree (root, interior or leaf) is encoded as ".tag"
\* plus one member named after the variant that holds the encoded payload.
C7_NeverCollapsed ==
  (Encoded /\ HasPayload
     /\ (is_struct_type(Variant.data_type)
           => Variant.data_type.name \in TreeNames)) => Nested

\* C7 amended: a variant whose payload is a list, a scalar or a record that
\* itself declares enumerated subtypes (the root or an interior class of a
\* tree) is encoded as ".tag" plus one member named after the variant that
\* holds the encoded payload, for a tree member with its own ".tag" path
\* and the fields of its chain; a variant whose payload type is a leaf of
\* a tree is collapsed, no member is named after the variant.
C7_NestedUnlessLeaf ==
  /\ (Encoded /\ HasPayload
        /\ (is_struct_type(Variant.data_type)
              => Variant.data_type.name \in {"A", "B"})) => Nested
  /\ (Encoded /\ HasPayload /\ Variant.data_type.name = "C")
       => CountKey(wire, v.tag) = 0

C7_Witness ==
  /\ Encoded /\ T = "U" /\ v.tag = "sub" /\ Payload.t = "C"
  /\ Len(wire.m) = 2 /\ wire.m[2][1] = "sub"
  /\ wire.m[2][2].m[1] = <<TagKey, WStr(<<"b", Dot, "c">>)>>
  /\ CountKey(wire.m[2][2], "a") = 1

\* C8 as stated: two payload-bearing variants of a union have the same
\* storage slot exactly when their payload type references are equal
\* (nullability, numeric kind and constraints included); payload-free
\* variants have no slot.
\* the slot of every payload-bearing variant of u: unique_value_types[tn]
SlotsOf(u, uvt) ==
  [f \in PayloadFields(u) |->
     uvt[CHOOSE i \in 1..Len(uvt) : uvt[i][1] = maptype(f.data_type)][2]]

NoSlotForVoid(u, uvt) ==
  \A i \in 1..Len(all_fields(u)) :
     is_simple_field(all_fields(u)[i]) =>
       \A j \in 1..Len(uvt) : uvt[j][2] # all_fields(u)[i].name \o "_value"

C8_SlotsByTypeRef ==
  T \in UnionNames =>
    \A uvt \in {unique_value_types(T)} :
       /\ \A slot \in {SlotsOf(T, uvt)} :
            \A f \in DOMAIN slot, g \in DOMAIN slot :
               (slot[f] = slot[g]) <=> (f.data_type = g.data_type)
       /\ NoSlotForVoid(T, uvt)

\* C8 amended: two payload-bearing variants have the same storage slot
\* exactly when their payload types are stored as the same type: a 64-bit
\* or unsigned 32-bit number, nullable or not, as Long, a record as its
\* class, a list as the list of its item's storage type.  A value has one
\* slot per storage type, and payload-free variants have no slot.
StorageOf ==
  [num |-> "Long", cnt |-> "Long", opt |-> "Long", info |-> "P",
   network_error |-> "M", server_error |-> "M", lst |-> "List<Integer>",
   sub |-> "A", leaf |-> "C", ext |-> "Q"]

C8_SlotsByStorageType ==
  T \in UnionNames =>
    \A uvt \in {unique_value_types(T)} :
       /\ \A slot \in {SlotsOf(T, uvt)} :
            \A f \in DOMAIN slot, g \in DOMAIN slot :
               (slot[f] = slot[g]) <=> (StorageOf[f.name] = StorageOf[g.name])
       /\ Len(v.m) = Cardinality({StorageOf[f.name] : f \in PayloadFields(T)})
       /\ NoSlotForVoid(T, uvt)

C8_Witness ==
  /\ T = "U" /\ v.tag = "opt" /\ Payload = Num(1) /\ Len(v.m) = 7
  /\ getter(T, Variant, v) = Ok(Num(1))
  /\ value_name(T, Variant) = "num_value"
  /\ value_name(T, FieldNamed(T, "cnt")) = "num_value"
  /\ value_name(T, FieldNamed(T, "server_error")) = "network_error_value"

\* C9: for a variant that shares its storage slot with another variant,
\* decoding the object the encoder wrote for it succeeds with that variant,
\* and encoding the result again gives the same ".tag" and payload.
SharesSlot ==
  \E g \in PayloadFields(T) :
     g.name # v.tag /\ value_name(T, g) = value_name(T, Variant)

C9_SharedSlotRoundTrip ==
  (Encoded /\ T \in UnionNames /\ ~is_simple_field(Variant) /\ SharesSlot
     /\ op # "none") =>
    /\ res.st = "ok" /\ res.val.tag = v.tag
    /\ wire2 # Null => wire2 = wire

\* C10: decoding a record object never returns a record with a required
\* field (not nullable, no declared default) of its class or of an ancestor
\* unset: what read returns either fails the validation of its reader or
\* has every required field set.
RequiredSet(x) ==
  \A i \in 1..Len(all_fields(x.t)) :
     (~is_nullable_type(all_fields(x.t)[i].data_type)
        /\ ~all_fields(x.t)[i].has_default) => x.m[i] # Null

C10_RequiredChecked ==
  (op = "read" /\ T \in StructNames /\ res.st = "ok"
     /\ validate(T, res.val).st = "ok") => RequiredSet(res.val)

\* C11: decoding a record object yields, for every field with a declared
\* default, the default when the object has no member for the field, and
\* the value of the member (zero included) when it has one.  Decoding is
\* read followed by the validation of the reader, which fills defaults.
HasKey(w, key) == \E i \in 1..Len(w.m) : w.m[i][1] = key
ValueAt(w, key) == w.m[CHOOSE i \in 1..Len(w.m) : w.m[i][1] = key][2]

DefaultsFilled(x, w) ==
  \A i \in 1..Len(all_fields(x.t)) :
     all_fields(x.t)[i].has_default =>
       x.m[i] = (IF HasKey(w, all_fields(x.t)[i].name)
                 THEN Num(ValueAt(w, all_fields(x.t)[i].name).n)
                 ELSE Num(all_fields(x.t)[i].default))

C11_DefaultsOnDecode ==
  (op = "read" /\ T \in StructNames /\ res.st = "ok"
     /\ validate(T, res.val).st = "ok")
    => DefaultsFilled(validate(T, res.val).val, wire)

\* ---------------------------------------------------------------- C13
\* every numeric field of x that is set lies within the bounds its type
\* declares, a bound of 0 included
WithinNumericBounds(x) ==
  \A i \in 1..Len(all_fields(x.t)) :
    \A dt \in {all_fields(x.t)[i].data_type} :
      (is_numeric_type(dt) /\ x.m[i] # Null) =>
        /\ (dt.min # None => x.m[i].n >= dt.min)
        /\ (dt.max # None => x.m[i].n <= dt.max)

NumericNames == {"VN", "VB"}
AllSet(x) == \A i \in 1..Len(x.m) : x.m[i] # Null

\* C13: validation of a record of required numeric fields succeeds exactly
\* when every value lies within its declared min_value and max_value, a
\* declared bound of 0 included and a value equal to a bound accepted; this
\* holds of the checks of both emitters.
C13_NumericBounds ==
  (op = "validate" /\ T \in NumericNames /\ AllSet(v)) =>
    /\ (res.st = "ok") = WithinNumericBounds(v)
    /\ (ores.st = "ok") = WithinNumericBounds(v)

\* the same statement of the Java emitter's checks alone
C13_JavaBounds ==
  (op = "validate" /\ T \in NumericNames /\ AllSet(v)) =>
    (res.st = "ok") = WithinNumericBounds(v)

\* ---------------------------------------------------------------- C14
\* every string and list field of x that is set has a length or an item
\* count within the bounds its type declares
WithinSizeBounds(x) ==
  \A i \in 1..Len(all_fields(x.t)) :
    \A dt \in {all_fields(x.t)[i].data_type} :
      ((is_string_type(dt) \/ is_list_type(dt)) /\ x.m[i] # Null) =>
        /\ (dt.min # None => Len(x.m[i].m) >= dt.min)
        /\ (dt.max # None => Len(x.m[i].m) <= dt.max)

\* the items of every list field of x are within their own bounds
ItemsWithinBounds(x) ==
  \A i \in 1..Len(all_fields(x.t)) :
    \A dt \in {all_fields(x.t)[i].data_type} :
      (is_list_type(dt) /\ x.m[i] # Null) =>
        \A j \in 1..Len(x.m[i].m) :
          /\ x.m[i].m[j] # Null
          /\ is_numeric_type(dt.elem[1]) /\ dt.elem[1].min # None
               => x.m[i].m[j].n >= dt.elem[1].min

SizedNames == {"VS", "VL"}

\* C14: for a record of required string and list fields whose items are
\* valid, validation succeeds exactly when every length and item count is
\* within the declared bounds (bounds inclusive), and fails with a
\* constraint violation otherwise; this holds of the checks of both
\* emitters.
C14_SizeBounds ==
  (op = "validate" /\ T \in SizedNames /\ AllSet(v)
     /\ ItemsWithinBounds(v)) =>
    /\ res.st = (IF WithinSizeBounds(v) THEN "ok" ELSE "ConstraintViolation")
    /\ ores.st = (IF WithinSizeBounds(v) THEN "ok"
                  ELSE "ConstraintViolation")

\* a string of exactly max_length characters has been accepted
C14_Witness ==
  /\ op = "validate" /\ T = "VS" /\ v.m[1] # Null
  /\ Len(v.m[1].m) = FieldNamed("VS", "s").data_type.max
  /\ res.st = "ok" /\ ores.st = "ok"

\* a list with fewer than min_items items has been rejected
C14_WitnessReject ==
  /\ op = "validate" /\ T = "VL" /\ v.m[1] = Lst(<<>>)
  /\ res.st = "ConstraintViolation" /\ ores.st = "ConstraintViolation"

\* ---------------------------------------------------------------- C15
IsRequired(field) ==
  ~is_nullable_type(field.data_type) /\ ~field.has_default

\* the field at which the validation of v stopped
LastChecked == FieldNamed(T, checked[Len(checked)])

\* C15: when validation reaches a required field (non-nullable, without
\* default) whose value is null it fails with the missing-required-value
\* error, whatever constraints the type of the field declares, and no
\* validation succeeds on a record with a null required field.
C15_RequiredFirst ==
  (op = "validate" /\ checked # <<>>) =>
    /\ (IsRequired(LastChecked) /\ Get(v, LastChecked.name) = Null)
         => res.st = "RequiredValueMissing"
    /\ res.st = "ok" =>
         \A i \in 1..Len(all_fields(T)) :
           IsRequired(all_fields(T)[i]) => Get(v, all_fields(T)[i].name) # Null

\* a required string field with a declared min_length was null and the
\* validation failed with the missing-required-value error
C15_Witness ==
  /\ op = "validate" /\ T = "VS" /\ v.m[1] = Null
  /\ FieldNamed("VS", "s").data_type.min # None
  /\ res.st = "RequiredValueMissing"

\* ---------------------------------------------------------------- C16
\* y is x with nothing changed but null fields that have a default, of x
\* or of a record inside x, set to that default
RECURSIVE OnlyDefaultsFilled(_, _)
OnlyDefaultsFilled(x, y) ==
  \/ x = y
  \/ /\ x.k = "struct" /\ y.k = "struct" /\ x.t = y.t
     /\ Len(x.m) = Len(y.m)
     /\ \A i \in 1..Len(x.m) :
          \/ OnlyDefaultsFilled(x.m[i], y.m[i])
          \/ /\ x.m[i] = Null /\ all_fields(x.t)[i].has_default
             /\ y.m[i] = Num(all_fields(x.t)[i].default)
  \/ /\ x.k = "list" /\ y.k = "list" /\ Len(x.m) = Len(y.m)
     /\ \A i \in 1..Len(x.m) : OnlyDefaultsFilled(x.m[i], y.m[i])

DefaultedNames == {"VD", "C", "VO"}

AsNonNullable(field) == [field EXCEPT !.data_type.nullable = FALSE]

\* what the claim expects of a nullable field holding x: null is accepted
\* as it is, any other value is validated as the unwrapped type
NullableExpected(field, x) ==
  IF x = Null THEN Ok(Null)
  ELSE generate_field_validation(AsNonNullable(field), x, TRUE)

NullableExpectedObjC(field, x) ==
  IF x = Null THEN Ok(Null)
  ELSE DbxStoneValidators(
         determine_validator_type(AsNonNullable(field).data_type), x)

\* C17: validating a record of nullable fields accepts a null field and
\* leaves it null, and treats a field that is set exactly as a field of
\* the unwrapped type holding the same value is treated (same outcome,
\* same validated value); this holds of the checks of both emitters.
C17_Nullable ==
  (op = "validate" /\ T = "VO") =>
    \A r1 \in {NullableExpected(fields["VO"][1], v.m[1])},
       r2 \in {NullableExpected(fields["VO"][2], v.m[2])},
       o1 \in {NullableExpectedObjC(fields["VO"][1], v.m[1])},
       o2 \in {NullableExpectedObjC(fields["VO"][2], v.m[2])} :
      /\ res.st = (IF r1.st # "ok" THEN r1.st ELSE r2.st)
      /\ res.st = "ok" => res.val.m = <<r1.val, r2.val>>
      /\ ores.st = (IF o1.st # "ok" THEN o1.st ELSE o2.st)
      /\ ores.st = "ok" => ores.val = v

\* a null and a set nullable field were validated and accepted
C17_Witness ==
  /\ op = "validate" /\ T = "VO" /\ v.m[1] = Null /\ v.m[2] # Null
  /\ res.st = "ok" /\ res.val.m[1] = Null /\ ores.st = "ok"

\* a nullable field set to a value above max_value was rejected
C17_WitnessReject ==
  /\ op = "validate" /\ T = "VO" /\ v.m[1] = Num(2)
  /\ res.st = "ConstraintViolation" /\ ores.st = "ConstraintViolation"

\* ---------------------------------------------------------------- C18
\* x is a valid non-null value of the type dt: within the range, length
\* or item-count bounds of dt, every item of a list a valid value of the
\* element type, a record accepted by the validator of its declared class
RECURSIVE ValueOk(_, _)
ValueOk(dt, x) ==
  /\ x # Null
  /\ IF is_list_type(dt)
     THEN /\ (dt.min # None => Len(x.m) >= dt.min)
          /\ (dt.max # None => Len(x.m) <= dt.max)
          /\ \A j \in 1..Len(x.m) : ValueOk(dt.elem[1], x.m[j])
     ELSE IF is_numeric_type(dt)
     THEN /\ (dt.min # None => x.n >= dt.min)
          /\ (dt.max # None => x.n <= dt.max)
     ELSE IF is_string_type(dt)
     THEN /\ (dt.min # None => Len(x.m) >= dt.min)
          /\ (dt.max # None => Len(x.m) <= dt.max)
     ELSE IF is_struct_type(dt) THEN validate(dt.name, x).st = "ok"
     ELSE TRUE

\* x is a value an Objective-C program can hold: no nil inside an array,
\* every record in it built by its constructor
RECURSIVE Constructible(_)
Constructible(x) ==
  IF x.k = "list"
  THEN \A j \in 1..Len(x.m) : x.m[j] # Null /\ Constructible(x.m[j])
  ELSE IF x.k = "struct" THEN struct_cstor(x.t, x).st = "ok"
  ELSE TRUE

ListNames == {"VL", "VLL", "VLS"}

\* C18: validating a record with one required list field succeeds exactly
\* when the list has an item count within min_items/max_items, holds no
\* null item, and every item is a valid value of the element type (the
\* items of nested lists and record items included); this holds of the
\* Java validate and, for the lists an Objective-C program can hold, of
\* the Objective-C constructor.
C18_ListItems ==
  (op = "validate" /\ T \in ListNames /\ v.m[1] # Null) =>
    /\ (res.st = "ok") = ValueOk(fields[T][1].data_type, v.m[1])
    /\ Constructible(v.m[1]) =>
         (ores.st = "ok") = ValueOk(fields[T][1].data_type, v.m[1])

\* the same statement of the Java emitter's checks alone
C18_JavaListItems ==
  (op = "validate" /\ T \in ListNames /\ v.m[1] # Null) =>
    /\ (res.st = "ok") = ValueOk(fields[T][1].data_type, v.m[1])
    /\ (\E j \in 1..Len(v.m[1].m) : v.m[1].m[j] = Null) =>
         res.st = "ConstraintViolation"

\* ---------------------------------------------------------------- C19
\* the fields of the inheritance chain of a record class, root first
OrderOf ==
  [A |-> <<"a">>, B |-> <<"a", "bf">>, C |-> <<"a", "bf", "cf">>,
   Q |-> <<"x", "y", "q">>]
ChainNames == {"A", "B", "C", "Q"}

IsPrefix(p, q) == Len(p) <= Len(q) /\ p = SubSeq(q, 1, Len(p))

\* C19: the checks that a validation runs follow the inheritance chain
\* root first, every field of every ancestor once and before any field of
\* a descendant: they are a prefix of that order, all of it when the
\* validation succeeds, and cut at the first failing field otherwise.
C19_ParentFirst ==
  (op = "validate" /\ T \in ChainNames) =>
    /\ IsPrefix(checked, OrderOf[T])
    /\ res.st = "ok" => checked = OrderOf[T]
    /\ res.st # "ok" => checked # <<>>

\* a record two levels below its root was validated with success: the
\* fields of the root, of the parent and of the class itself were checked
C19_Witness ==
  /\ op = "validate" /\ T = "C" /\ res.st = "ok"
  /\ checked = <<"a", "bf", "cf">>

\* a validation stopped at a field of the parent before the own fields
C19_WitnessStop ==
  /\ op = "validate" /\ T = "C" /\ res.st = "RequiredValueMissing"
  /\ checked = <<"a", "bf">>

\* ---------------------------------------------------------------- C20
\* no null anywhere in an encoded value
RECURSIVE NoNull(_)
NoNull(w) ==
  /\ w # Null
  /\ w.k = "wobj" => \A i \in 1..Len(w.m) : NoNull(w.m[i][2])
  /\ w.k = "warr" => \A i \in 1..Len(w.m) : NoNull(w.m[i])

KeysOf(w) == {w.m[i][1] : i \in 1..Len(w.m)}

\* the names of the fields of the record x that are set
SetFields(x) ==
  {all_fields(x.t)[i].name :
     i \in {j \in 1..Len(x.m) : x.m[j] # Null}}

\* every scalar field of x that is set is in w under its name
ScalarsEmitted(x, w) ==
  \A i \in 1..Len(x.m) :
    x.m[i].k \in {"num", "str"} =>
      DictGet(w.m, all_fields(x.t)[i].name) = Scalar(x.m[i])

RECURSIVE SameJson(_, _)
SameJson(a, b) ==
  IF a.k = "wobj" /\ b.k = "wobj"
  THEN /\ KeysOf(a) = KeysOf(b)
       /\ \A key \in KeysOf(a) :
            SameJson(DictGet(a.m, key), DictGet(b.m, key))
  ELSE IF a.k = "warr" /\ b.k = "warr"
  THEN /\ Len(a.m) = Len(b.m)
       /\ \A i \in 1..Len(a.m) : SameJson(a.m[i], b.m[i])
  ELSE a = b

\* C12: the codecs of the two emitters behave alike on the wire: a valid
\* value is encoded by both to the same JSON object, and an object is
\* decoded by both to the same value or refused by both, for records,
\* members of enumerated-subtype trees of one and of two levels, unknown
\* subtype tags, and unions with and without a catch-all variant.
C12_SameWireBehaviour ==
  /\ (wire # Null /\ ntamper = 0 /\ Valid) =>
       (owire.st = "ok" /\ SameJson(wire, owire.val))
  /\ op = "both" =>
       /\ (res.st = "ok") = (ores.st = "ok")
       /\ res.st = "ok" => OnlyDefaultsFilled(res.val, ores.val)

\* the statement restricted to the encoding of a union variant whose
\* payload is a plain record
C12_SamePayloadEncoding ==
  (wire # Null /\ ntamper = 0 /\ Valid /\ T = "U" /\ v.tag = "info") =>
    (owire.st = "ok" /\ SameJson(wire, owire.val))

\* the statement restricted to the decoding of an object whose tag the
\* union does not declare, for a union with a catch-all variant
C12_SameUnknownTag ==
  (op = "both" /\ T = "U" /\ wire = WObj(<<TagMember("z")>>)) =>
    (res.st = "ok") = (ores.st = "ok")

\* the statement restricted to the members of the tree of one level
C12_SameOneLevelTree ==
  /\ (wire # Null /\ ntamper = 0 /\ Valid /\ T = "R") =>
       (owire.st = "ok" /\ SameJson(wire, owire.val))
  /\ (op = "both" /\ T = "R" /\ ntamper = 0 /\ Valid) =>
       (res.st = "ok") = (ores.st = "ok")

\* ------------------------------------ C2, C3, C6 for both emitters
\* the tree of one level, which both emitters accept
OneLevelTree == {"R", "S"}

\* C2 for both emitters: the member S below the root R of the tree of one
\* level is encoded, by the Java writer and by the Objective-C serializer
\* of the class encoded against (R or S), with exactly one ".tag" holding
\* the tag "s" of its chain.
C2_TagBothEmitters ==
  (wire # Null /\ ntamper = 0 /\ Valid /\ T \in OneLevelTree
     /\ v.t = "S") =>
    /\ CountKey(wire, TagKey) = 1
    /\ DictGet(wire.m, TagKey) = WStr(<<"s">>)
    /\ owire.st = "ok"
    /\ CountKey(owire.val, TagKey) = 1
    /\ DictGet(owire.val.m, TagKey) = WStr(<<"s">>)

\* C3 for both emitters: a member of the tree of one level encoded through
\* the writer (serializer) of its root gives the same object as encoded
\* through the writer (serializer) of its own class.
C3_RuntimeBothEmitters ==
  (wire # Null /\ ntamper = 0 /\ Valid /\ T \in OneLevelTree) =>
    /\ wire = write(v.t, v)
    /\ owire.st = "ok"
    /\ \A own \in {Serialize(v.t, v, TRUE)} :
         own.st = "ok" /\ SameJson(owire.val, own.val)

\* C6 for both emitters: a variant whose payload is a plain record is
\* encoded as ".tag" and the fields of the record in one object, with no
\* member named after the variant.
C6_CollapsedBothEmitters ==
  (wire # Null /\ ntamper = 0 /\ HasPayload
     /\ Variant.data_type.name \in PlainRecords) =>
    \A collapsed \in
         {WObj(<<TagMember(v.tag)>>
               \o MembersOf(all_fields(Variant.data_type.name), Payload))} :
      /\ wire = collapsed
      /\ owire.st = "ok" /\ SameJson(owire.val, collapsed)

\* ---- C21: unknown keys
\* the object without its members of the unknown key
RECURSIVE WithoutKey(_, _)
WithoutKey(mem, key) ==
  IF mem = <<>> THEN <<>>
  ELSE (IF Head(mem)[1] = key THEN <<>> ELSE <<Head(mem)>>)
       \o WithoutKey(Tail(mem), key)

Stripped(w) == IF w.k = "wobj" THEN WObj(WithoutKey(w.m, UnknownKey)) ELSE w

\* the same decoding operation, applied to another object
DecodeAs(w) ==
  IF op = "fromJson" THEN readFully(T, w, ea) ELSE Read(T, w, ea)

HasUnknownKey ==
  wire.k = "wobj" /\ \E i \in 1..Len(wire.m) : wire.m[i][1] = UnknownKey

\* C21: when a record is decoded, a key that matches no field of the class
\* or of its ancestors is skipped: the object with unknown keys added
\* (anywhere, with a value of any shape) decodes with the same outcome and
\* to the same value as the object without them.
C21_UnknownKeysSkipped ==
  (T \in StructNames /\ op \in {"read", "fromJson"} /\ HasUnknownKey)
    => res = DecodeAs(Stripped(wire))

\* what holds of the generated reader: the unknown key is skipped wherever
\* readFields meets it, that is in every record outside a tree, and in a
\* member of a tree when the key does not stand where ".tag" is expected
C21_SkippedByReadFields ==
  (/\ T \in StructNames /\ op \in {"read", "fromJson"} /\ HasUnknownKey
   /\ (is_member_of_enumerated_subtypes_tree(T)
         => Head(wire.m)[1] # UnknownKey))
    => res = DecodeAs(Stripped(wire))

\* a decoded object that holds the unknown key before a ".tag" that names
\* a subtype
C21_WitnessFront ==
  /\ T = "A" /\ op = "read" /\ HasUnknownKey
  /\ Head(wire.m)[1] = UnknownKey
  /\ Len(wire.m) > 1 /\ wire.m[2] = <<TagKey, WStr(<<"b">>)>>
  /\ res.st = "ok" /\ res.val.t = "A"
\* ---- C22: the kinds of decode errors
\* an object was expected and the input is a scalar (a union also accepts
\* the bare tag string)
ExpectedObject ==
  wire.k # "wobj" /\ ~(T \in UnionNames /\ wire.k = "wstr")

\* the object ends where a key was expected: a union object without any
\* member, or one that ends after the ".tag" of a variant whose payload is
\* stored under a key of its own
EndedEarly ==
  /\ T \in UnionNames /\ wire.k = "wobj"
  /\ \/ wire.m = <<>>
     \/ /\ Len(wire.m) = 1 /\ wire.m[1][1] = TagKey /\ wire.m[1][2].k = "wstr"
        /\ \E f \in PayloadFields(T) :
             /\ wire.m[1][2].m = Text(f.name)
             /\ f.name \in FieldNames(fields[T])
             /\ ~is_nullable_type(f.data_type)
             /\ ~(is_struct_type(f.data_type)
                    /\ ~has_enumerated_subtypes(f.data_type.name))

\* a required field of x, or of a record x holds, is not set
RECURSIVE MissingRequired(_)
MissingRequired(x) ==
  IF x.k = "struct"
  THEN \E i \in 1..Len(all_fields(x.t)) :
         \/ (x.m[i] = Null /\ ~is_nullable_type(all_fields(x.t)[i].data_type)
               /\ ~all_fields(x.t)[i].has_default)
         \/ MissingRequired(x.m[i])
  ELSE IF x.k = "union"
  THEN \E i \in 1..Len(x.m) : MissingRequired(x.m[i])
  ELSE FALSE

\* C22: decode errors fall into distinct kinds.  A structural mismatch (a
\* scalar where an object is expected, an object that ends where a key is
\* expected) fails with MalformedWireObject; an unknown tag of a union
\* without catch-all fails with UnrecognizedTag; a missing required field
\* fails with RequiredValueMissing; and neither UnrecognizedTag nor
\* RequiredValueMissing is reported for an input of another kind.
C22_ErrorKinds ==
  op \in {"read", "fromJson"} =>
    /\ (ExpectedObject \/ EndedEarly) => res.st = "MalformedWireObject"
    /\ (T \in UnionNames /\ catch_all_field[T] = "" /\ UnknownTagged)
         => res.st = "UnrecognizedTag"
    /\ (op = "fromJson" /\ Read(T, wire, ea).st = "ok"
          /\ MissingRequired(Read(T, wire, ea).val))
         => res.st = "RequiredValueMissing"
    /\ res.st = "UnrecognizedTag"
         => (T \in UnionNames /\ catch_all_field[T] = "" /\ UnknownTagged)
    /\ res.st = "RequiredValueMissing"
         => (op = "fromJson" /\ Read(T, wire, ea).st = "ok"
               /\ MissingRequired(Read(T, wire, ea).val))
\* what holds of the generated readers: a scalar where an object is
\* expected fails with MalformedWireObject, an unknown tag of a union
\* without catch-all with UnrecognizedTag, and these two kinds and
\* RequiredValueMissing are raised for no other input
C22_KindsRaised ==
  op \in {"read", "fromJson"} =>
    /\ ExpectedObject => res.st = "MalformedWireObject"
    /\ (T \in UnionNames /\ catch_all_field[T] = "" /\ UnknownTagged)
         => res.st = "UnrecognizedTag"
    /\ res.st = "UnrecognizedTag"
         => (T \in UnionNames /\ catch_all_field[T] = "" /\ UnknownTagged)
    /\ res.st = "RequiredValueMissing"
         => (op = "fromJson" /\ Read(T, wire, ea).st = "ok"
               /\ MissingRequired(Read(T, wire, ea).val))
\* ---- C23: the states of the decode of one object
\* the states a decode of T passes through when nothing fails; a union
\* reads fields only for a variant with a payload
FullPath(t) ==
  IF t \in UnionNames \/ is_member_of_enumerated_subtypes_tree(t)
  THEN <<"ExpectObjectStart", "ReadingTagPath", "DispatchSubtype",
         "ReadingFields", "ExpectObjectEnd", "Done">>
  ELSE <<"ExpectObjectStart", "ReadingFields", "ExpectObjectEnd", "Done">>

WithoutFields(path) == SelectSeq(path, LAMBDA ph : ph # "ReadingFields")

\* p is a beginning of the path, or such a beginning (short of Done)
\* followed by the error state
OnPath(p, path) ==
  \/ IsPrefix(p, path)
  \/ /\ p # <<>> /\ p[Len(p)] = "Error"
     /\ Len(p) > 1 /\ Len(p) <= Len(path)
     /\ IsPrefix(SubSeq(p, 1, Len(p) - 1), path)

Terminal == Phase \in {"Done", "Error"}

\* the steps of the decoder agree with the reader taken as one operation
StepsAgree == Terminal => res = Read(T, wire, ea)

DecodeStatesOk ==
  /\ \/ OnPath(phases, FullPath(T))
     \/ T \in UnionNames /\ OnPath(phases, WithoutFields(FullPath(T)))
  /\ (T \in StructNames /\ is_member_of_enumerated_subtypes_tree(T)
        /\ acc # Null)
       => IsPrefix(<<"ExpectObjectStart", "ReadingTagPath",
                     "DispatchSubtype", "ReadingFields">>, phases)
  /\ Phase = "Done" => res.st = "ok"
  /\ Phase = "Error" => (res.st \notin {"ok", "none"} /\ res.val = Null)
  /\ ~Terminal => res = NoRes

TerminalStays ==
  Terminal => UNCHANGED <<phases, rest, acc, disp, res>>

\* C23: the decode of one object passes through ExpectObjectStart,
\* ReadingFields (zero or more reads), ExpectObjectEnd and Done in this
\* order; for a record of an enumerated-subtype tree the tag path is read
\* and the subtype dispatched before any field is read; Done and the error
\* state are terminal: after an error nothing more is read, Done is not
\* reached and no value is returned.
C23_DecodeStates == []DecodeStatesOk /\ [][TerminalStays]_vars

\* a record decoded through two dispatches to the class its tag names
C23_Witness ==
  /\ T = "A" /\ phases = FullPath("A") /\ res.st = "ok" /\ res.val.t = "C"

\* an error met while members of the object are still unread
C23_WitnessError ==
  /\ Phase = "Error" /\ rest # <<>> /\ Len(phases) > 2
\* ---- C24: the ancestor chain
\* the chain ends with t, starts at a root, and every entry is the child of
\* the entry before it
ChainShape(t, chain) ==
  /\ chain # <<>>
  /\ chain[Len(chain)][2] = t
  /\ parent_type[chain[1][2]] = ""
  /\ chain[1][1] = ""
  /\ \A i \in 2..Len(chain) : parent_type[chain[i][2]] = chain[i - 1][2]

\* is <<tag, child>> a pair of the enumerated-subtype list of parent
Enumerates(parent, tag, child) ==
  \E i \in 1..Len(enumerated_subtypes[parent]) :
     enumerated_subtypes[parent][i] = <<tag, child>>

\* the ".tag" member of an encoded record, <<>> when it has none
WrittenTagPath(w) ==
  IF w.m # <<>> /\ w.m[1][1] = TagKey THEN w.m[1][2].m ELSE <<>>

NonNullTags(chain) ==
  [i \in 1..Len(SelectSeq(chain, LAMBDA e : e[1] # "")) |->
     SelectSeq(chain, LAMBDA e : e[1] # "")[i][1]]

\* C24 as stated: the ancestor chain of any type is ordered root first and
\* ends with the type; the root entry has a null tag and every entry past
\* the root carries the tag under which the enumerated-subtype list of its
\* parent names it; the non-null tags joined give the ".tag" path written
\* for the type.
C24_ChainAsStated ==
  T \in StructNames =>
    \A chain \in {get_ancestors(T)} :
       /\ ChainShape(T, chain)
       /\ \A i \in 2..Len(chain) :
            Enumerates(chain[i - 1][2], chain[i][1], chain[i][2])
       /\ (Encoded /\ v.t = T)
            => WrittenTagPath(wire) = join(NonNullTags(chain))

\* C24 amended: an entry past the root carries the tag of the parent's
\* enumerated-subtype list when the parent enumerates subtypes, and a null
\* tag when it does not (plain inheritance); the rest as stated.
C24_ChainOfAncestors ==
  T \in StructNames =>
    \A chain \in {get_ancestors(T)} :
       /\ ChainShape(T, chain)
       /\ \A i \in 2..Len(chain) :
            IF has_enumerated_subtypes(chain[i - 1][2])
            THEN Enumerates(chain[i - 1][2], chain[i][1], chain[i][2])
            ELSE chain[i][1] = ""
       /\ (Encoded /\ v.t = T)
            => WrittenTagPath(wire) = join(NonNullTags(chain))

\* the chain of the class two levels below the root, used by its writer
C24_Witness ==
  /\ T = "C" /\ Encoded
  /\ get_ancestors(T) = << <<"", "A">>, <<"b", "B">>, <<"c", "C">> >>
  /\ WrittenTagPath(wire) = <<"b", Dot, "c">>

\* the chain of a class that extends a parent without enumerated subtypes
C24_WitnessPlain ==
  /\ T = "Q" /\ Encoded
  /\ get_ancestors(T) = << <<"", "P">>, <<"", "Q">> >>
\* ---- C25: purity of encode and decode
\* validate, when it returns, returns the object it was handed
InPlaceAgrees ==
  op = "route" /\ res.st = "ok" => res.val = arg

\* C25: the result of a call depends on its own input only and no call
\* changes what another call sees: the caller's object stays as it was
\* handed over, and it is encoded to the same object by toJson and by a
\* route call, before or after it was validated.
C25_EncodePure ==
  /\ arg = v
  /\ wire # Null => wire = Write(T, v)
  /\ wire2 # Null => wire2 = Write(T, v)

\* a field with a default is null in x or in a record x holds
RECURSIVE HasNullDefault(_)
HasNullDefault(x) ==
  IF x.k = "struct"
  THEN \E i \in 1..Len(all_fields(x.t)) :
         \/ (x.m[i] = Null /\ all_fields(x.t)[i].has_default)
         \/ HasNullDefault(x.m[i])
  ELSE IF x.k = "union"
  THEN \E i \in 1..Len(x.m) : HasNullDefault(x.m[i])
  ELSE FALSE

\* what holds of the generated code: the calls leave alone, and encode
\* alike, every object in which no field with a default is null
C25_PureWhenDefaultsSet ==
  ~HasNullDefault(v) => C25_EncodePure

\* toJson called after a route call that filled a default
C25_WitnessFilled ==
  /\ T = "M" /\ op = "route" /\ res.st = "ok" /\ wire # Null
  /\ wire # Write(T, v) /\ wire = wire2
\* ---- C26: the tag table of the union reader
\* C26: the tag lookup table of the reader of a union holds every variant
\* the writer of the union can emit, the variants inherited from a parent
\* union included: the tag written for a value is found in the table, and
\* decoding the written object neither fails with UnrecognizedTag nor
\* yields the catch-all variant for a value of another variant.
C26_TagTableComplete ==
  (T \in UnionNames /\ Encoded /\ op \in {"read", "fromJson"}) =>
    /\ values_get(T, WrittenTagPath(wire)) = v.tag
    /\ res.st # "UnrecognizedTag"
    /\ (res.st = "ok" /\ res.val.tag = catch_all_field[T])
         => v.tag = catch_all_field[T]

\* what holds of the generated table: it holds the variants the union
\* declares itself
C26_OwnVariantsKnown ==
  (T \in UnionNames /\ Encoded /\ v.tag \in FieldNames(fields[T])) =>
    values_get(T, WrittenTagPath(wire)) = v.tag

\* the written object of an inherited variant, decoded as the catch-all
C26_WitnessInherited ==
  /\ T = "U" /\ Encoded /\ v.tag = "ok" /\ op = "read"
  /\ wire = WObj(<<TagMember("ok")>>)
  /\ res = Ok(NewUnion("U", "other"))
\* ---- C27: the null payload of a nullable variant
\* v is a variant whose payload type is Nullable, with a null payload
NullPayload ==
  /\ T \in UnionNames /\ ~is_simple_field(Variant)
  /\ is_nullable_type(Variant.data_type) /\ Payload = Null

\* C27: a variant with a Nullable payload type and a null payload is
\* encoded as an object holding only ".tag"; decoding that object, or the
\* bare tag string, yields the same variant with a null payload, never the
\* catch-all variant and never an unrecognized-tag failure.
C27_NullPayloadRoundTrip ==
  (NullPayload /\ wire # Null) =>
    /\ Encoded => wire = WObj(<<TagMember(v.tag)>>)
    /\ (op \in {"read", "fromJson"}
          /\ wire \in {WObj(<<TagMember(v.tag)>>), WStr(Text(v.tag))})
         => res = Ok(v)

\* what holds of the generated code: the encoding, and the decoding of the
\* bare-string form
C27_BareStringForm ==
  (NullPayload /\ wire # Null) =>
    /\ Encoded => wire = WObj(<<TagMember(v.tag)>>)
    /\ (op \in {"read", "fromJson"} /\ wire = WStr(Text(v.tag)))
         => res = Ok(v)

\* the object holding only the tag of the nullable variant, decoded as the
\* catch-all variant
C27_WitnessObjectForm ==
  /\ NullPayload /\ Encoded /\ op = "read" /\ v.tag = "opt"
  /\ res = Ok(NewUnion("U", "other"))

\* the bare string of the nullable variant, decoded to the variant
C27_WitnessBareString ==
  /\ NullPayload /\ wire = WStr(<<"opt">>) /\ op = "read" /\ res = Ok(v)
\* ---- C28: the fields of a collapsed payload
\* the payload of v is a record that the union writer collapses
CollapsedPayload ==
  /\ HasPayload /\ is_struct_type(Variant.data_type)
  /\ ~has_enumerated_subtypes(Variant.data_type.name)

\* C28: the members written next to ".tag" for a collapsed payload are the
\* non-null fields of all linearized fields of the payload record, those
\* inherited from its ancestors as well as its own, and the reader of the
\* union reads the same payload back.
C28_CollapsedAllFields ==
  (Encoded /\ CollapsedPayload) =>
    /\ Tail(wire.m) = MembersOf(all_fields(Payload.t), Payload)
    /\ op = "read" => res = Ok(v)

\* what holds of the generated writer: the members are the non-null fields
\* the payload class declares itself, which are all its fields when it has
\* no parent
C28_CollapsedOwnFields ==
  (Encoded /\ CollapsedPayload) =>
    /\ Tail(wire.m) = MembersOf(fields[Variant.data_type.name], Payload)
    /\ (op = "read" /\ parent_type[Variant.data_type.name] = ""
          /\ Payload.t = Variant.data_type.name)
         => res = Ok(v)

\* a payload with an inherited field set, written without it and read
\* back without it
C28_WitnessLost ==
  /\ Encoded /\ CollapsedPayload /\ v.tag = "ext" /\ op = "read"
  /\ Get(Payload, "x") # Null
  /\ ~HasKey(wire, "x")
  /\ res.st = "ok" /\ Get(SlotOf(res.val, Variant), "x") = Null
\* ---- C29: members after an unrecognized tag
\* the object starts with a ".tag" that names no variant of T and holds
\* further members
UnknownTagWithKeys ==
  /\ T \in UnionNames /\ wire.k = "wobj" /\ Len(wire.m) > 1
  /\ wire.m[1][1] = TagKey /\ wire.m[1][2].k = "wstr"
  /\ Undeclared(T, wire.m[1][2].m)

\* C29: decoding, against a union with a catch-all, an object whose ".tag"
\* is unrecognized and which holds further members yields the catch-all
\* variant: the members are skipped and cause no structural error.
C29_KeysAfterUnknownTag ==
  (op \in {"read", "fromJson"} /\ UnknownTagWithKeys
     /\ catch_all_field[T] # "")
    => res = Ok(NewUnion(T, catch_all_field[T]))

\* what the generated reader does with such an object
C29_KeysAfterUnknownTagFail ==
  (op \in {"read", "fromJson"} /\ UnknownTagWithKeys
     /\ catch_all_field[T] # "")
    => res.st = "MalformedWireObject"

\* the payload of an unknown variant under its tag name, met by
\* expectObjectEnd
C29_WitnessPayload ==
  /\ T = "U" /\ op = "read" /\ UnknownTagWithKeys
  /\ wire.m[1][2].m = <<"z">> /\ wire.m[2][1] = "cnt"
  /\ res.st = "MalformedWireObject"
\* ---- C30: the accessors of a union
\* C30: a value built by the factory of variant f has tag f, and the
\* getter of variant g returns a value only when g is the tag: it returns
\* the payload handed to the factory when g = f and raises an error
\* otherwise, also when f and g are stored in one slot.
C30_AccessorsGuarded ==
  /\ (op = "factory" /\ res.st = "ok") => (v.tag = call.f /\ res.val = v)
  /\ op = "factory" => (ores.st = "ok" /\ ores.val.tag = call.f)
  /\ (op = "getter" /\ v # Null) =>
       IF call.g = call.f THEN res = Ok(call.x)
       ELSE res = Err("RuntimeException")
  /\ op = "getter" =>
       IF call.g = call.f THEN ores = Ok(call.x)
       ELSE ores = Err("IllegalStateException")

\* the two variants are stored in one slot of the Java class
SameSlot(f, g) ==
  maptype(FieldNamed(T, f).data_type) = maptype(FieldNamed(T, g).data_type)

\* the getter of a variant called on a value of another variant that is
\* stored in the same slot, with a payload set
C30_Witness ==
  /\ op = "getter" /\ T = "U" /\ call.f = "num" /\ call.g = "cnt"
  /\ call.x # Null /\ SameSlot(call.f, call.g)
  /\ SlotOf(v, FieldNamed(T, call.g)) = call.x
  /\ res = Err("RuntimeException")

\* the getter of the variant the value was built with
C30_WitnessOwn ==
  /\ op = "getter" /\ call.f = "network_error" /\ call.g = call.f
  /\ call.x # Null /\ res = Ok(call.x) /\ ores = Ok(call.x)
====
